---- MODULE Spec2Model ----
(***************************************************************************)
(* The feed component (components/layout/CenterFeed.tsx): the post         *)
(* container with its optimistic mutations, the realtime subscription,     *)
(* the refetch, the filter/sort projection and the resource-claim gate.    *)
(*                                                                         *)
(* The remote store (supabase) is the environment: its tables are the      *)
(* variables sPosts, sLikes, sComments; a query or mutation resolves with  *)
(* {data, error}, so a remote call has the two outcomes "ok" and "error".  *)
(***************************************************************************)
EXTENDS Integers, Sequences, FiniteSets, Bags, TLC

VARIABLES
    posts,        \* useState<Post[]>: the feed state container
    loading,      \* useState(true)
    shown,        \* filteredAndSortedPosts of the last committed render: the
                  \* post objects the buttons' onClick closures hold
    filter,       \* useState('all')
    sortBy,       \* useState('created_at')
    searchQuery,  \* prop
    user,         \* prop: the signed-in user's id, or NoUser
    profile,      \* prop: the user's profile, or NoProfile
    donorDetails, \* useState<Post | null>
    newComments,  \* useState<Record<string, string>>: comment drafts
    rendered,     \* the posts array of the last committed render: what the
                  \* handlers of that render read as `posts`
    composerType,     \* useState('wisdom'): the kind the composer is set to
    content,          \* useState(''): the composer's free text
    resourceTitle,    \* useState('')
    resourceCategory, \* useState('')
    resourceContact,  \* useState('')
    postImageFile,    \* useState<File | null>(null)
    submitting,       \* useState(false)
    linkPreview,      \* useState(null): the preview of the link being written
    loadingLinkPreview, \* useState(false)
    timers,           \* the link-preview timers set and neither fired nor cleared
    editingPost,      \* useState<Post | null>(null)
    editedContent,    \* useState('')
    postToDelete,     \* useState<Post | null>(null)
    toast,        \* the last notification shown
    route,        \* the last router.push target
    connected,    \* isSupabaseConnected
    mounted,      \* whether the component is mounted
    postsChannel, \* the channel the subscription effect's closure holds
    channels,     \* the realtime channels live in the supabase client
    nextChannel,  \* channels created so far
    fetches,      \* fetchPosts calls in flight (a bag)
    calls,        \* remote mutations in flight (a bag)
    events,       \* realtime events pushed and not yet delivered (FIFO)
    notified,     \* create_notification requests issued
    sPosts,       \* store: posts table
    sLikes,       \* store: likes table
    sComments,    \* store: comments table
    ops,          \* changes other clients made to the store so far
    acts,         \* actions the user took so far
    nextTmp,      \* temporary comment identifiers synthesized so far
    dbl,          \* history: a like toggled twice in succession
    lastOp        \* history: the step taken last

formVars == <<composerType, content, resourceTitle, resourceCategory,
              resourceContact, postImageFile, submitting, linkPreview,
              editingPost, editedContent, postToDelete, loadingLinkPreview,
              timers>>

vars == <<posts, loading, shown, rendered, filter, sortBy, searchQuery, user,
          profile, donorDetails, newComments, toast, route, connected,
          mounted, postsChannel, channels, nextChannel, fetches, calls,
          events, notified, sPosts, sLikes, sComments, ops, acts, nextTmp,
          dbl, lastOp,
         formVars>>

\* Variable groups, for UNCHANGED.
uiVars    == <<filter, sortBy, searchQuery, donorDetails, newComments, route>>
authVars  == <<user, profile>>
chanVars  == <<connected, mounted, postsChannel, channels, nextChannel>>
storeVars == <<sPosts, sLikes, sComments>>
previewVars == <<loadingLinkPreview, timers>>

----------------------------------------------------------------------------
\* Bounds of the model.
MaxOps == 2        \* changes other clients make to the store per run
MaxActs == 2       \* clicks on like, comment, post, delete, edit and save per run
MaxFetches == 2    \* fetchPosts calls in flight at once
MaxMounts == 2     \* mounts of the component per run

PostIds == {"p1", "p2", "p3"}
FeedIds == {"p1", "p2"}
Users == {"u1", "u2"}
NoUser == "none"
NoProfile == [role |-> "none", verification_status |-> "none"]
NoPost == [id |-> "none"]
NoRow == [st |-> "none"]
GoneRow == [st |-> "gone"]
NoChannel == 0

\* created_at is an ISO timestamp string with microseconds, as the store
\* writes it; modelled as <<milliseconds, microseconds within it>>.
Times == {<<1, 0>>, <<1, 5>>, <<2, 0>>, <<3, 0>>}
TimeLess(s, t) == s[1] < t[1] \/ (s[1] = t[1] /\ s[2] < t[2])

\* new Date(created_at).getTime(): milliseconds; the digits after the third
\* fractional digit are dropped.
getTime(t) == t[1]

----------------------------------------------------------------------------
\* Post objects.  A row pushed by a realtime event holds the table's columns
\* only; a fetched post also holds the nested likes and comments.
Likes(p) == IF "likes" \in DOMAIN p THEN p.likes ELSE <<>>
Comments(p) == IF "comments" \in DOMAIN p THEN p.comments ELSE <<>>

Range(s) == {s[i] : i \in 1..Len(s)}
Ids(ps) == {ps[i].id : i \in 1..Len(ps)}
LikeUsers(p) == {Likes(p)[i].user_id : i \in 1..Len(Likes(p))}
PostOf(ps, id) == ps[CHOOSE i \in 1..Len(ps) : ps[i].id = id]

\* { ...p, ...newPostData }
Merge(p, d) ==
    [k \in DOMAIN p \cup DOMAIN d |-> IF k \in DOMAIN d THEN d[k] ELSE p[k]]

----------------------------------------------------------------------------
\* Text.  A string is a sequence of characters, so that toLowerCase and
\* includes are computed and not assumed.
toLowerCase(t) ==
    [i \in 1..Len(t) |-> IF t[i] = "A" THEN "a" ELSE IF t[i] = "B" THEN "b" ELSE t[i]]

includes(t, q) ==
    \E i \in 0..(Len(t) - Len(q)) : \A j \in 1..Len(q) : t[i + j] = q[j]

Texts == {<<"a">>, <<"A", "b">>}
Username(u) == IF u = "u1" THEN <<"B">> ELSE <<"c">>

\* post.content?.toLowerCase().includes(searchQuery.toLowerCase()) || ...
MatchesSearch(p, q) ==
    \/ "content" \in DOMAIN p /\ includes(toLowerCase(p.content), toLowerCase(q))
    \/ "resource_title" \in DOMAIN p
         /\ includes(toLowerCase(p.resource_title), toLowerCase(q))
    \/ "profiles" \in DOMAIN p
         /\ includes(toLowerCase(p.profiles.username), toLowerCase(q))

----------------------------------------------------------------------------
\* The sort comparators of filteredAndSortedPosts.
cmpCreated(a, b) == getTime(b.created_at) - getTime(a.created_at)

cmpLikes(a, b) ==
    IF Len(Likes(b)) # Len(Likes(a))
    THEN Len(Likes(b)) - Len(Likes(a))
    ELSE cmpCreated(a, b)

cmpComments(a, b) ==
    IF Len(Comments(b)) # Len(Comments(a))
    THEN Len(Comments(b)) - Len(Comments(a))
    ELSE cmpCreated(a, b)

Compare(key, a, b) ==
    IF key = "likes" THEN cmpLikes(a, b)
    ELSE IF key = "comments" THEN cmpComments(a, b)
    ELSE cmpCreated(a, b)

\* Array.prototype.sort is stable: x goes behind every element that does
\* not compare greater than it.
RECURSIVE InsertSorted(_, _, _)
InsertSorted(s, x, key) ==
    IF s = <<>> THEN <<x>>
    ELSE IF Compare(key, Head(s), x) <= 0
         THEN <<Head(s)>> \o InsertSorted(Tail(s), x, key)
         ELSE <<x>> \o s

RECURSIVE sortArray(_, _)
sortArray(s, key) ==
    IF s = <<>> THEN <<>>
    ELSE InsertSorted(sortArray(SubSeq(s, 1, Len(s) - 1), key), s[Len(s)], key)

\* Mutant: the type filter is skipped.
Project_NoTypeFilter(ps, q, f, key) ==
    LET searched == IF q # <<>>
                    THEN SelectSeq(ps, LAMBDA p : MatchesSearch(p, q))
                    ELSE ps
        sorted == sortArray(searched, key)
    IN [shown |-> sorted,
        posts |-> IF q = <<>> /\ f = "all" THEN sorted ELSE ps]

\* filteredAndSortedPosts.  filter() makes a new array; sort() sorts the array
\* it is called on, which is the posts state itself when neither filter ran.
\* The result is [shown |-> the projection, posts |-> the container after].
Project(ps, q, f, key) ==
    LET searched == IF q # <<>>
                    THEN SelectSeq(ps, LAMBDA p : MatchesSearch(p, q))
                    ELSE ps
        typed == IF f # "all"
                 THEN SelectSeq(searched, LAMBDA p : p.post_type = f)
                 ELSE searched
        sorted == sortArray(typed, key)
    IN [shown |-> sorted,
        posts |-> IF q = <<>> /\ f = "all" THEN sorted ELSE ps]

----------------------------------------------------------------------------
\* The feed state container's mutations (the setPosts updaters).

\* Mutant: the payload replaces the post instead of being merged into it.
updatePostInState_Replace(ps, postId, newPostData) ==
    [i \in 1..Len(ps) |-> IF ps[i].id = postId THEN newPostData ELSE ps[i]]

updatePostInState(ps, postId, newPostData) ==
    [i \in 1..Len(ps) |->
        IF ps[i].id = postId THEN Merge(ps[i], newPostData) ELSE ps[i]]

\* Mutant: only the first post with the identifier is removed.
removePostFromState_First(ps, postId) ==
    IF postId \in Ids(ps)
    THEN LET k == CHOOSE i \in 1..Len(ps) :
                     ps[i].id = postId /\ \A j \in 1..(i - 1) : ps[j].id # postId
         IN SubSeq(ps, 1, k - 1) \o SubSeq(ps, k + 1, Len(ps))
    ELSE ps

removePostFromState(ps, postId) ==
    SelectSeq(ps, LAMBDA p : p.id # postId)

addPostToState(ps, newPost) == <<newPost>> \o ps

----------------------------------------------------------------------------
\* The remote store.

Live(p) == sPosts[p].st = "live"

\* The row of post p, as a realtime payload carries it.
RowOf(p, r) ==
    [k \in {"id"} \cup (DOMAIN r \ {"st"}) |-> IF k = "id" THEN p ELSE r[k]]

PostRow(p) == RowOf(p, sPosts[p])

\* A row as handlePostSubmit inserts it: a wisdom post carries content, a
\* donation or seeking post a resource title; created_at is the store's.
NewRow(u, t, ty) ==
    IF ty = "wisdom"
    THEN [st |-> "live", user_id |-> u, created_at |-> t, post_type |-> ty,
          content |-> <<"a">>]
    ELSE [st |-> "live", user_id |-> u, created_at |-> t, post_type |-> ty,
          resource_title |-> <<"A", "b">>]

\* Mutant: the query does not select the comments.
FetchedPost_NoComments(p) ==
    Merge(PostRow(p),
          [profiles |-> [username |-> Username(sPosts[p].user_id)],
           likes |-> SelectSeq(sLikes, LAMBDA l : l.post_id = p),
           comments |-> <<>>])

\* select(`*, profiles(*), likes(*), comments(*, profiles(*))`)
FetchedPost(p) ==
    Merge(PostRow(p),
          [profiles |-> [username |-> Username(sPosts[p].user_id)],
           likes |-> SelectSeq(sLikes, LAMBDA l : l.post_id = p),
           comments |-> SelectSeq(sComments, LAMBDA c : c.post_id = p)])

\* .order('created_at', { ascending: false }): the store compares the
\* timestamps exactly.
RECURSIVE OrderedDesc(_)
OrderedDesc(S) ==
    IF S = {} THEN <<>>
    ELSE LET p == CHOOSE x \in S :
                    \A y \in S \ {x} : TimeLess(sPosts[y].created_at, sPosts[x].created_at)
         IN <<FetchedPost(p)>> \o OrderedDesc(S \ {p})

Snapshot == OrderedDesc({p \in PostIds : Live(p)})

\* A new row's created_at is the store's clock: later than every row before.
LaterThanAll(t) ==
    \A p \in PostIds : sPosts[p].st = "live" => TimeLess(sPosts[p].created_at, t)

----------------------------------------------------------------------------
\* fetchPosts, in its three steps: the query is issued, the store answers it
\* with a snapshot or an error, the answer lands in the component.

fetchPostsStart(fs) == fs (+) SetToBag({[st |-> "sent"]})

\* Mutant: the fetched data is dropped.
fetchPostsLand_Keep(ps, f) == ps

\* Mutant: posts the snapshot does not hold are kept behind it.
fetchPostsLand_Merge(ps, f) ==
    IF f.st = "data"
    THEN f.data \o SelectSeq(ps, LAMBDA p : p.id \notin Ids(f.data))
    ELSE ps

\* Mutant: the error is not thrown, and setPosts(data || []) runs with no data.
fetchPostsLand_Clear(ps, f) == IF f.st = "data" THEN f.data ELSE <<>>

\* if (error) throw error; setPosts(data || []);  /  catch: the posts stay
fetchPostsLand(ps, f) == IF f.st = "data" THEN f.data ELSE ps

CanFetch == BagCardinality(fetches) < MaxFetches

----------------------------------------------------------------------------
\* The realtime channel's handlers (the .on(...) callbacks).

onPostInsert(ps, payload) == addPostToState(ps, payload.new)

onPostUpdate(ps, payload) == updatePostInState(ps, payload.new.id, payload.new)

onPostDelete(ps, payload) == removePostFromState(ps, payload.old.id)

\* Mutant: a nested change is dropped without a refetch.
onNestedChange_Ignore(fs, payload) == fs

\* .on('postgres_changes', { event: '*', table: 'likes' | 'comments' }, fetchPosts)
onNestedChange(fs, payload) == fetchPostsStart(fs)

\* Mutant: the cleanup leaves the channel subscribed.
removeChannel_Leak(chs, ch) == chs

\* supabase.removeChannel(postsChannel)
removeChannel(chs, ch) == chs \ {ch}

\* The store pushes an event to the component while its channel is live.
Subscribed == mounted /\ postsChannel # NoChannel /\ postsChannel \in channels

Push(e) == events' = IF Subscribed THEN Append(events, e) ELSE events

----------------------------------------------------------------------------
\* Initial state: the component is not mounted yet, nothing is in flight.

NoFile == "null"
NoPreview == [url |-> "null"]

InitForm ==
    /\ composerType = "wisdom"
    /\ content = <<>>
    /\ resourceTitle = <<>>
    /\ resourceCategory = ""
    /\ resourceContact = <<>>
    /\ postImageFile = NoFile
    /\ submitting = FALSE
    /\ linkPreview = NoPreview
    /\ loadingLinkPreview = FALSE
    /\ timers = {}
    /\ editingPost = NoPost
    /\ editedContent = <<>>
    /\ postToDelete = NoPost

InitComponent ==
    /\ InitForm
    /\ posts = <<>>
    /\ loading = TRUE
    /\ shown = <<>>
    /\ rendered = <<>>
    /\ filter = "all"
    /\ sortBy = "created_at"
    /\ searchQuery = <<>>
    /\ donorDetails = NoPost
    /\ newComments = [p \in PostIds |-> <<>>]
    /\ toast = "none"
    /\ route = "feed"
    /\ calls = EmptyBag
    /\ events = <<>>
    /\ notified = {}
    /\ ops = 0
    /\ acts = 0
    /\ nextTmp = 0
    /\ dbl = [n |-> 0]
    /\ lastOp = [op |-> "init"]

InitUnmounted ==
    /\ mounted = FALSE
    /\ postsChannel = NoChannel
    /\ channels = {}
    /\ nextChannel = 0

\* A post another client created before this run.
SeedRow(u) == NewRow(u, <<1, 0>>, "wisdom")

InitStore ==
    /\ sPosts \in {[p \in PostIds |-> NoRow],
                   [p \in PostIds |-> IF p = "p1" THEN SeedRow("u1") ELSE NoRow]}
    /\ sLikes = <<>>
    /\ sComments = <<>>

\* The state right after the component mounted with the store connected:
\* the first fetchPosts is in flight and the channel is subscribed.
InitMounted ==
    /\ connected = TRUE
    /\ mounted = TRUE
    /\ postsChannel = 1
    /\ channels = {1}
    /\ nextChannel = 1

Init ==
    /\ InitComponent
    /\ InitMounted
    /\ fetches = fetchPostsStart(EmptyBag)
    /\ user = NoUser
    /\ profile = NoProfile
    /\ InitStore

----------------------------------------------------------------------------
\* The subscription effect (useEffect, lines 169-197) and its cleanup.

Mount ==
    /\ ~mounted
    /\ nextChannel < MaxMounts
    /\ mounted' = TRUE
    /\ connected' = connected
    /\ IF ~connected
       THEN /\ posts' = <<>>
            /\ loading' = FALSE
            /\ fetches' = fetches
            /\ UNCHANGED <<postsChannel, channels, nextChannel>>
       ELSE /\ fetches' = fetchPostsStart(fetches)
            /\ nextChannel' = nextChannel + 1
            /\ postsChannel' = nextChannel + 1
            /\ channels' = channels \cup {nextChannel + 1}
            /\ UNCHANGED <<posts, loading>>
    /\ lastOp' = [op |-> "mount"]
    /\ UNCHANGED <<shown, rendered, uiVars, authVars, storeVars, toast, calls, events,
                   notified, ops, acts, nextTmp, dbl, formVars>>

\* Unmount runs the cleanup the effect returned (none when the store is not
\* connected) and discards the component's state; answers to its pending
\* queries no longer land anywhere.
Unmount ==
    /\ mounted
    /\ mounted' = FALSE
    /\ channels' = IF postsChannel # NoChannel
                   THEN removeChannel(channels, postsChannel)
                   ELSE channels
    /\ postsChannel' = postsChannel
    /\ posts' = <<>>
    /\ loading' = TRUE
    /\ shown' = <<>>
    /\ rendered' = <<>>
    /\ fetches' = EmptyBag
    /\ events' = <<>>
    /\ lastOp' = [op |-> "unmount"]
    /\ UNCHANGED <<uiVars, authVars, storeVars, connected, nextChannel, toast,
                   calls, notified, ops, acts, nextTmp, dbl, formVars>>

----------------------------------------------------------------------------
\* Other clients change the store; each change is pushed as a realtime event.

StoreInsertPost(p, u, t, ty) ==
    /\ connected /\ ops < MaxOps
    /\ sPosts[p].st = "none"
    /\ LaterThanAll(t)
    /\ sPosts' = [sPosts EXCEPT ![p] = NewRow(u, t, ty)]
    /\ Push([table |-> "posts", type |-> "INSERT",
             new |-> RowOf(p, NewRow(u, t, ty))])
    /\ ops' = ops + 1
    /\ lastOp' = [op |-> "storeInsert", id |-> p]
    /\ UNCHANGED <<posts, loading, shown, rendered, uiVars, authVars, chanVars, toast,
                   fetches, calls, notified, sLikes, sComments, acts, nextTmp, dbl, formVars>>

StoreUpdatePost(p, c) ==
    /\ connected /\ ops < MaxOps
    /\ Live(p) /\ "content" \in DOMAIN sPosts[p] /\ sPosts[p].content # c
    /\ sPosts' = [sPosts EXCEPT ![p].content = c]
    /\ Push([table |-> "posts", type |-> "UPDATE",
             new |-> [PostRow(p) EXCEPT !.content = c]])
    /\ ops' = ops + 1
    /\ lastOp' = [op |-> "storeUpdate", id |-> p]
    /\ UNCHANGED <<posts, loading, shown, rendered, uiVars, authVars, chanVars, toast,
                   fetches, calls, notified, sLikes, sComments, acts, nextTmp, dbl, formVars>>

StoreDeletePost(p) ==
    /\ connected /\ ops < MaxOps
    /\ Live(p)
    /\ sPosts' = [sPosts EXCEPT ![p] = GoneRow]
    /\ sLikes' = SelectSeq(sLikes, LAMBDA l : l.post_id # p)
    /\ sComments' = SelectSeq(sComments, LAMBDA c : c.post_id # p)
    /\ Push([table |-> "posts", type |-> "DELETE", old |-> [id |-> p]])
    /\ ops' = ops + 1
    /\ lastOp' = [op |-> "storeDelete", id |-> p]
    /\ UNCHANGED <<posts, loading, shown, rendered, uiVars, authVars, chanVars, toast,
                   fetches, calls, notified, acts, nextTmp, dbl, formVars>>

\* Another client's like toggle: the row (p, u) is inserted or deleted.
StoreLike(p, u) ==
    /\ connected /\ ops < MaxOps
    /\ Live(p)
    /\ LET has == \E i \in 1..Len(sLikes) :
                      sLikes[i].post_id = p /\ sLikes[i].user_id = u
       IN /\ sLikes' = IF has
                       THEN SelectSeq(sLikes, LAMBDA l : ~(l.post_id = p /\ l.user_id = u))
                       ELSE Append(sLikes, [id |-> "srv", post_id |-> p, user_id |-> u])
          /\ Push([table |-> "likes", type |-> IF has THEN "DELETE" ELSE "INSERT",
                   post_id |-> p])
    /\ ops' = ops + 1
    /\ lastOp' = [op |-> "storeLike", id |-> p]
    /\ UNCHANGED <<posts, loading, shown, rendered, uiVars, authVars, chanVars, toast,
                   fetches, calls, notified, sPosts, sComments, acts, nextTmp, dbl, formVars>>

\* Another client's comment.
StoreComment(p, u) ==
    /\ connected /\ ops < MaxOps
    /\ Live(p)
    /\ sComments' = Append(sComments,
                      [id |-> <<"srv", Len(sComments) + 1>>, post_id |-> p,
                       user_id |-> u, content |-> <<"a">>])
    /\ Push([table |-> "comments", type |-> "INSERT", post_id |-> p])
    /\ ops' = ops + 1
    /\ lastOp' = [op |-> "storeComment", id |-> p]
    /\ UNCHANGED <<posts, loading, shown, rendered, uiVars, authVars, chanVars, toast,
                   fetches, calls, notified, sPosts, sLikes, acts, nextTmp, dbl, formVars>>

----------------------------------------------------------------------------
\* Delivery of the oldest pending realtime event to its handler.

Pending(table, type) ==
    /\ Subscribed
    /\ events # <<>>
    /\ Head(events).table = table
    /\ Head(events).type \in type

DeliverFrame ==
    /\ events' = Tail(events)
    /\ UNCHANGED <<loading, shown, rendered, uiVars, authVars, chanVars, storeVars, toast,
                   calls, notified, ops, acts, nextTmp, formVars>>

DeliverPostInsert ==
    /\ Pending("posts", {"INSERT"})
    /\ posts' = onPostInsert(posts, Head(events))
    /\ fetches' = fetches
    /\ dbl' = [n |-> 0]
    /\ lastOp' = [op |-> "postInsert", id |-> Head(events).new.id]
    /\ DeliverFrame

DeliverPostUpdate ==
    /\ Pending("posts", {"UPDATE"})
    /\ posts' = onPostUpdate(posts, Head(events))
    /\ fetches' = fetches
    /\ dbl' = [n |-> 0]
    /\ lastOp' = [op |-> "postUpdate", id |-> Head(events).new.id]
    /\ DeliverFrame

DeliverPostDelete ==
    /\ Pending("posts", {"DELETE"})
    /\ posts' = onPostDelete(posts, Head(events))
    /\ fetches' = fetches
    /\ dbl' = [n |-> 0]
    /\ lastOp' = [op |-> "postDelete", id |-> Head(events).old.id]
    /\ DeliverFrame

DeliverLikes ==
    /\ Pending("likes", {"INSERT", "UPDATE", "DELETE"})
    /\ CanFetch
    /\ fetches' = onNestedChange(fetches, Head(events))
    /\ posts' = posts
    /\ dbl' = dbl
    /\ lastOp' = [op |-> "likesEvent", id |-> Head(events).post_id]
    /\ DeliverFrame

DeliverComments ==
    /\ Pending("comments", {"INSERT", "UPDATE", "DELETE"})
    /\ CanFetch
    /\ fetches' = onNestedChange(fetches, Head(events))
    /\ posts' = posts
    /\ dbl' = dbl
    /\ lastOp' = [op |-> "commentsEvent", id |-> Head(events).post_id]
    /\ DeliverFrame

----------------------------------------------------------------------------
\* The store answers a pending query; the answer lands.

FetchFrame ==
    UNCHANGED <<shown, rendered, uiVars, authVars, chanVars, storeVars, calls, events,
                notified, ops, acts, nextTmp, formVars>>

FetchServe(ok) ==
    /\ [st |-> "sent"] \in BagToSet(fetches)
    /\ fetches' = (fetches (-) SetToBag({[st |-> "sent"]}))
                    (+) SetToBag({IF ok THEN [st |-> "data", data |-> Snapshot]
                                        ELSE [st |-> "error"]})
    /\ lastOp' = [op |-> "fetchServe"]
    /\ UNCHANGED <<posts, loading, toast, dbl>>
    /\ FetchFrame

FetchLand(f) ==
    /\ mounted
    /\ f \in BagToSet(fetches) /\ f.st # "sent"
    /\ fetches' = fetches (-) SetToBag({f})
    /\ posts' = fetchPostsLand(posts, f)
    /\ toast' = IF f.st = "data" THEN toast ELSE "Could not fetch posts."
    /\ loading' = FALSE
    /\ dbl' = IF f.st = "data" THEN [n |-> 0] ELSE dbl
    /\ lastOp' = [op |-> "fetchLand", ok |-> f.st = "data"]
    /\ FetchFrame

----------------------------------------------------------------------------
\* React commits a render: the projection is recomputed (and sorts the
\* container in place when no filter ran), and the buttons get the new post
\* objects.  Updates made outside a user event are rendered some time later.

Render ==
    /\ mounted
    /\ LET r == Project(posts, searchQuery, filter, sortBy)
       IN /\ (r.posts # posts \/ r.shown # shown \/ r.posts # rendered)
          /\ posts' = r.posts
          /\ shown' = r.shown
          /\ rendered' = r.posts
    /\ lastOp' = [op |-> "render"]
    /\ UNCHANGED <<loading, uiVars, authVars, chanVars, storeVars, toast,
                   fetches, calls, events, notified, ops, acts, nextTmp, dbl, formVars>>

----------------------------------------------------------------------------
\* The feed under realtime events and refetches.

StoreChange ==
    \/ \E p \in FeedIds, u \in Users, t \in {<<2, 0>>, <<3, 0>>} :
          StoreInsertPost(p, u, t, "wisdom")
    \/ \E p \in FeedIds, c \in Texts : StoreUpdatePost(p, c)
    \/ \E p \in FeedIds : StoreDeletePost(p)
    \/ \E p \in FeedIds : StoreLike(p, "u2")
    \/ \E p \in FeedIds : StoreComment(p, "u2")

Deliver ==
    \/ DeliverPostInsert
    \/ DeliverPostUpdate
    \/ DeliverPostDelete
    \/ DeliverLikes
    \/ DeliverComments

Fetching ==
    \/ \E ok \in BOOLEAN : FetchServe(ok)
    \/ \E f \in BagToSet(fetches) : FetchLand(f)

Next ==
    \/ StoreChange
    \/ Deliver
    \/ Fetching
    \/ Render

Spec == Init /\ [][Next]_vars

----------------------------------------------------------------------------
\* The component's lifecycle: mounts and unmounts, with events and refetches
\* in between.

InitLifecycle ==
    /\ InitComponent
    /\ InitUnmounted
    /\ connected \in BOOLEAN
    /\ fetches = EmptyBag
    /\ user = NoUser
    /\ profile = NoProfile
    /\ InitStore

NextLifecycle ==
    \/ Mount
    \/ Unmount
    \/ \E p \in FeedIds : StoreInsertPost(p, "u1", <<2, 0>>, "wisdom")
    \/ \E p \in FeedIds : StoreLike(p, "u2")
    \/ DeliverPostInsert
    \/ DeliverLikes
    \/ Fetching
    \/ Render

SpecLifecycle == InitLifecycle /\ [][NextLifecycle]_vars

----------------------------------------------------------------------------
\* Claims about the realtime adapter and the container.

\* C5: a remote post-insert event is applied as an upsert, so the container
\* never holds two posts with the same identifier.
C5_NoDuplicateIds == Cardinality(Ids(posts)) = Len(posts)

\* The step that delivers the oldest pending event to its handler.
Delivered(table) ==
    /\ Subscribed
    /\ events # <<>>
    /\ Head(events).table = table
    /\ events' = Tail(events)
    /\ mounted'

\* s is t with some entries left out, the others in their order.
RECURSIVE IsSubSeq(_, _)
IsSubSeq(s, t) ==
    IF s = <<>> THEN TRUE
    ELSE IF t = <<>> THEN FALSE
    ELSE IF Head(s) = Head(t) THEN IsSubSeq(Tail(s), Tail(t))
    ELSE IsSubSeq(s, Tail(t))

\* C6: a remote post-update event shallow-merges the pushed row into the post
\* with its identifier and does nothing when no such post is in the container:
\* no post is added, no other post changes, length and order stay, and the
\* fields the payload does not carry (the nested likes and comments) stay.
C6_PatchFrame ==
    [][(Delivered("posts") /\ Head(events).type = "UPDATE") =>
        LET row == Head(events).new
        IN /\ Len(posts') = Len(posts)
           /\ \A i \in 1..Len(posts) :
                /\ posts'[i].id = posts[i].id
                /\ posts[i].id # row.id => posts'[i] = posts[i]
                /\ posts[i].id = row.id =>
                     /\ DOMAIN posts'[i] = DOMAIN posts[i] \cup DOMAIN row
                     /\ \A k \in DOMAIN row : posts'[i][k] = row[k]
                     /\ \A k \in DOMAIN posts[i] \ DOMAIN row :
                            posts'[i][k] = posts[i][k]
           /\ (row.id \notin Ids(posts) => posts' = posts)]_vars

\* C6 witness: an update event was delivered for a post that the store holds
\* no longer and the container does not hold either.
C6_Witness ==
    /\ lastOp.op = "postUpdate"
    /\ lastOp.id \notin Ids(posts)
    /\ sPosts[lastOp.id].st = "gone"

\* C7: a remote post-delete event removes exactly the posts with the given
\* identifier, keeps the others in their relative order, and does nothing
\* when the identifier is absent.
C7_RemoveFrame ==
    [][(Delivered("posts") /\ Head(events).type = "DELETE") =>
        LET id == Head(events).old.id
        IN /\ id \notin Ids(posts')
           /\ IsSubSeq(posts', posts)
           /\ Len(posts') =
                Len(posts) - Cardinality({i \in 1..Len(posts) : posts[i].id = id})
           /\ (id \notin Ids(posts) => posts' = posts)]_vars

\* C7 witness: a delete event removed a post while another post stayed.
C7_Witness ==
    /\ lastOp.op = "postDelete"
    /\ lastOp.id \notin Ids(posts)
    /\ posts # <<>>

SentFetches(fs) == CopiesIn([st |-> "sent"], fs)

\* C8: every realtime event on the likes or the comments table starts a full
\* refetch and changes no post of the container.
C8_NestedChangeRefetches ==
    [][(Delivered("likes") \/ Delivered("comments")) =>
        /\ posts' = posts
        /\ SentFetches(fetches') = SentFetches(fetches) + 1
        /\ BagCardinality(fetches') = BagCardinality(fetches) + 1]_vars

\* C8 witness: a likes event was delivered to a container that holds posts,
\* and its refetch is in flight.
C8_Witness ==
    /\ lastOp.op \in {"likesEvent", "commentsEvent"}
    /\ posts # <<>>
    /\ SentFetches(fetches) >= 1

\* C9: after unmount no channel of the component is live, while it is mounted
\* with the store connected exactly the channel it subscribed is live, and at
\* most one channel is live at any time.
C9_ChannelReleased ==
    /\ (~mounted => channels = {})
    /\ (mounted /\ connected => channels = {postsChannel})
    /\ Cardinality(channels) <= 1

\* C9 witness: the component was mounted with the store connected, received
\* an event, and was unmounted again.
C9_Witness ==
    /\ lastOp.op = "unmount"
    /\ connected
    /\ nextChannel >= 1
    /\ ops >= 1
    /\ channels = {}

----------------------------------------------------------------------------
\* The filter/sort projection: the user changes the sort key and the type
\* filter, the parent changes the search query; each change re-renders and
\* recomputes filteredAndSortedPosts.

RenderWith(ps, q, f, key) ==
    LET r == Project(ps, q, f, key)
    IN /\ posts' = r.posts
       /\ shown' = r.shown
       /\ rendered' = r.posts

ProjFrame ==
    UNCHANGED <<loading, donorDetails, newComments, route, authVars, chanVars,
                storeVars, toast, fetches, calls, events, notified, ops, acts,
                nextTmp, dbl, formVars>>

setSortBy(key) ==
    /\ mounted /\ key # sortBy
    /\ sortBy' = key
    /\ RenderWith(posts, searchQuery, filter, key)
    /\ lastOp' = [op |-> "setSortBy"]
    /\ UNCHANGED <<filter, searchQuery>>
    /\ ProjFrame

setFilter(f) ==
    /\ mounted /\ f # filter
    /\ filter' = f
    /\ RenderWith(posts, searchQuery, f, sortBy)
    /\ lastOp' = [op |-> "setFilter"]
    /\ UNCHANGED <<sortBy, searchQuery>>
    /\ ProjFrame

setSearchQuery(q) ==
    /\ mounted /\ q # searchQuery
    /\ searchQuery' = q
    /\ RenderWith(posts, q, filter, sortBy)
    /\ lastOp' = [op |-> "setSearchQuery"]
    /\ UNCHANGED <<sortBy, filter>>
    /\ ProjFrame

SortKeys == {"created_at", "likes", "comments"}
TypeFilters == {"all", "wisdom", "donation"}
Queries == {<<>>, <<"B">>}

\* Stores the feed may find: up to two posts of other clients, created in
\* the same millisecond, the older one liked or not, the newer one commented
\* or not.
SeedLike == [id |-> "srv", post_id |-> "p1", user_id |-> "u2"]
SeedComment ==
    [id |-> <<"srv", 1>>, post_id |-> "p2", user_id |-> "u1", content |-> <<"a">>]
SeedCommentOlder ==
    [id |-> <<"srv", 1>>, post_id |-> "p1", user_id |-> "u2", content |-> <<"a">>]

InitProj ==
    /\ InitComponent
    /\ InitMounted
    /\ fetches = fetchPostsStart(EmptyBag)
    /\ user = NoUser
    /\ profile = NoProfile
    /\ sPosts \in {[p \in PostIds |-> IF p = "p1" THEN NewRow("u1", <<1, 0>>, "wisdom")
                                      ELSE NoRow],
                   [p \in PostIds |-> IF p = "p1" THEN NewRow("u1", <<1, 0>>, "wisdom")
                                      ELSE IF p = "p2" THEN NewRow("u2", <<1, 5>>, "donation")
                                      ELSE NoRow]}
    /\ sLikes \in {<<>>, <<SeedLike>>}
    /\ sComments \in IF Live("p2")
                     THEN {<<>>, <<SeedComment>>, <<SeedCommentOlder>>}
                     ELSE {<<>>}

NextProj ==
    \/ \E t \in Times, ty \in {"wisdom", "donation"} :
          StoreInsertPost("p3", "u1", t, ty)
    \/ DeliverPostInsert
    \/ FetchServe(TRUE)
    \/ \E f \in BagToSet(fetches) : FetchLand(f)
    \/ Render
    \/ \E key \in SortKeys : setSortBy(key)
    \/ \E f \in TypeFilters : setFilter(f)
    \/ \E q \in Queries : setSearchQuery(q)

SpecProj == InitProj /\ [][NextProj]_vars

\* C10: with the default sort key the projection shows posts with distinct
\* creation times in descending order of creation time: P before Q iff
\* P.created_at > Q.created_at.
C10_MostRecentFirst ==
    sortBy = "created_at" =>
        \A i, j \in 1..Len(shown) :
            (i < j /\ shown[i].created_at # shown[j].created_at)
                => TimeLess(shown[j].created_at, shown[i].created_at)

\* C11: with sort key 'likes' the projection shows the posts by descending
\* number of likes (no like list counts as 0), and posts with equal like
\* counts by descending creation time.
C11_SortByLikes ==
    sortBy = "likes" =>
        \A i, j \in 1..Len(shown) : i < j =>
            /\ Len(Likes(shown[i])) >= Len(Likes(shown[j]))
            /\ (Len(Likes(shown[i])) = Len(Likes(shown[j]))
                   /\ shown[i].created_at # shown[j].created_at)
                 => TimeLess(shown[j].created_at, shown[i].created_at)

\* C12: with sort key 'comments' the projection shows the posts by
\* descending number of comments (no comment list counts as 0, synthesized
\* comments count), and posts with equal comment counts by descending
\* creation time.
C12_SortByComments ==
    sortBy = "comments" =>
        \A i, j \in 1..Len(shown) : i < j =>
            /\ Len(Comments(shown[i])) >= Len(Comments(shown[j]))
            /\ (Len(Comments(shown[i])) = Len(Comments(shown[j]))
                   /\ shown[i].created_at # shown[j].created_at)
                 => TimeLess(shown[j].created_at, shown[i].created_at)

\* Case-insensitive containment, letter by letter.
SameLetter(a, b) ==
    \/ a = b
    \/ {a, b} = {"a", "A"}
    \/ {a, b} = {"b", "B"}

ContainsIgnoringCase(t, q) ==
    \E i \in 0..(Len(t) - Len(q)) : \A j \in 1..Len(q) : SameLetter(t[i + j], q[j])

PassesSearch(p, q) ==
    \/ q = <<>>
    \/ "content" \in DOMAIN p /\ ContainsIgnoringCase(p.content, q)
    \/ "resource_title" \in DOMAIN p /\ ContainsIgnoringCase(p.resource_title, q)
    \/ "profiles" \in DOMAIN p /\ ContainsIgnoringCase(p.profiles.username, q)

PassesType(p, f) == f = "all" \/ p.post_type = f

Count(s, x) == Cardinality({i \in 1..Len(s) : s[i] = x})

Projecting == {"render", "setSortBy", "setFilter", "setSearchQuery"}

\* C13: whenever the projection is computed, its output holds exactly the
\* container's posts that pass the search and the type filter, each as often
\* as the container holds it; with the empty query it is the type filter and
\* the sort alone.
C13_ProjectionContents ==
    [][lastOp'.op \in Projecting =>
        /\ \A x \in Range(shown') \cup Range(posts') :
              Count(shown', x) =
                IF PassesSearch(x, searchQuery') /\ PassesType(x, filter')
                THEN Count(posts', x) ELSE 0
        /\ searchQuery' = <<>> =>
              shown' = sortArray(SelectSeq(posts',
                          LAMBDA p : PassesType(p, filter')), sortBy')]_vars

\* The projection has been computed with a query and a type filter that
\* each hide a post of the container.
C13_Witness ==
    /\ lastOp.op \in Projecting
    /\ searchQuery # <<>> /\ filter # "all"
    /\ shown # <<>>
    /\ \E i \in 1..Len(posts) : ~PassesSearch(posts[i], searchQuery)
    /\ \E i \in 1..Len(posts) :
          PassesSearch(posts[i], searchQuery) /\ ~PassesType(posts[i], filter)

\* C14: computing the projection leaves the container's post sequence, its
\* contents and their order, unchanged, for every query, filter and sort key.
C14_ProjectionPure ==
    [][lastOp'.op \in Projecting => posts' = posts]_vars

----------------------------------------------------------------------------
\* The resource claim.  The claim button of a donation post is disabled by
\* isClaimButtonDisabled, and a disabled button does not run its onClick; the
\* text under it is claimButtonTooltip.

Profiles ==
    [role : {"student", "donor", "other"},
     verification_status : {"verified", "pending"}]

\* Mutant: the own-resource check is missing from the button's gate.
isClaimButtonDisabled_NoOwnCheck(currentPost) ==
    IF user = NoUser THEN TRUE
    ELSE IF profile.role # "student" THEN TRUE
    ELSE IF profile.verification_status # "verified" THEN TRUE
    ELSE FALSE

isClaimButtonDisabled(currentPost) ==
    IF user = NoUser THEN TRUE
    ELSE IF profile.role # "student" THEN TRUE
    ELSE IF profile.verification_status # "verified" THEN TRUE
    ELSE IF currentPost.user_id = user THEN TRUE
    ELSE FALSE

claimButtonTooltip(currentPost) ==
    IF user = NoUser THEN "Sign in to claim resources"
    ELSE IF profile.role # "student" THEN "Only students can claim resources"
    ELSE IF profile.verification_status # "verified"
         THEN "Verify your student profile to claim resources"
    ELSE IF currentPost.user_id = user THEN "You cannot claim your own resource"
    ELSE "Claim this resource"

handleClaimResourceClick(post) ==
    IF user = NoUser
    THEN /\ toast' = "You must be signed in to claim resources."
         /\ UNCHANGED <<route, donorDetails>>
    ELSE IF profile.role # "student"
    THEN /\ toast' = "Only students can claim resources."
         /\ UNCHANGED <<route, donorDetails>>
    ELSE IF profile.verification_status # "verified"
    THEN /\ toast' = "You must be a verified student to claim resources. Please verify your profile."
         /\ route' = "verification"
         /\ UNCHANGED donorDetails
    ELSE /\ donorDetails' = post
         /\ UNCHANGED <<toast, route>>

ClaimFrame ==
    UNCHANGED <<posts, loading, shown, rendered, filter, sortBy, searchQuery, newComments,
                chanVars, storeVars, fetches, calls, events, notified, ops, acts,
                nextTmp, dbl, formVars>>

\* The user goes for the claim button of a shown donation post: nothing
\* happens on a disabled button, whose tooltip tells why; an enabled one runs
\* the handler.
ClaimAttempt(post) ==
    /\ mounted
    /\ post.post_type = "donation"
    /\ IF isClaimButtonDisabled(post)
       THEN /\ lastOp' = [op |-> "claimBlocked", id |-> post.id,
                          reason |-> claimButtonTooltip(post)]
            /\ UNCHANGED <<toast, route, donorDetails>>
       ELSE /\ lastOp' = [op |-> "claim", id |-> post.id]
            /\ handleClaimResourceClick(post)
    /\ UNCHANGED authVars
    /\ ClaimFrame

\* <Dialog open={!!donorDetails} onOpenChange={() => setDonorDetails(null)}>
CloseDonorDetails ==
    /\ donorDetails # NoPost
    /\ donorDetails' = NoPost
    /\ lastOp' = [op |-> "closeDonorDetails"]
    /\ UNCHANGED <<toast, route, authVars>>
    /\ ClaimFrame

\* The parent's checkSession: on sign-out user and profile become null
\* together; on sign-in the user is set first and the profile follows when
\* getUserProfile answers (with a profile or with null).
SignOut ==
    /\ user # NoUser
    /\ user' = NoUser
    /\ profile' = NoProfile
    /\ lastOp' = [op |-> "signOut"]
    /\ UNCHANGED <<toast, route, donorDetails>>
    /\ ClaimFrame

SignIn(u) ==
    /\ user # u
    /\ user' = u
    /\ profile' = profile
    /\ lastOp' = [op |-> "signIn"]
    /\ UNCHANGED <<toast, route, donorDetails>>
    /\ ClaimFrame

ProfileLoaded(pr) ==
    /\ user # NoUser
    /\ profile # pr
    /\ profile' = pr
    /\ user' = user
    /\ lastOp' = [op |-> "profileLoaded"]
    /\ UNCHANGED <<toast, route, donorDetails>>
    /\ ClaimFrame

\* The feed shows two donations, one by each user.
InitClaim ==
    /\ InitForm
    /\ filter = "all"
    /\ sortBy = "created_at"
    /\ searchQuery = <<>>
    /\ donorDetails = NoPost
    /\ newComments = [p \in PostIds |-> <<>>]
    /\ toast = "none"
    /\ route = "feed"
    /\ calls = EmptyBag
    /\ events = <<>>
    /\ notified = {}
    /\ ops = 0
    /\ acts = 0
    /\ nextTmp = 0
    /\ dbl = [n |-> 0]
    /\ lastOp = [op |-> "init"]
    /\ InitMounted
    /\ fetches = EmptyBag
    /\ loading = FALSE
    /\ user = NoUser
    /\ profile = NoProfile
    /\ sPosts = [p \in PostIds |->
                    IF p = "p1" THEN NewRow("u1", <<1, 0>>, "donation")
                    ELSE IF p = "p2" THEN NewRow("u2", <<2, 0>>, "donation")
                    ELSE NoRow]
    /\ sLikes = <<>>
    /\ sComments = <<>>
    /\ posts = Snapshot
    /\ shown = Project(Snapshot, <<>>, "all", "created_at").shown
    /\ rendered = Snapshot

NextClaim ==
    \/ \E i \in 1..Len(shown) : ClaimAttempt(shown[i])
    \/ CloseDonorDetails
    \/ SignOut
    \/ \E u \in Users : SignIn(u)
    \/ \E pr \in Profiles \cup {NoProfile} : ProfileLoaded(pr)

SpecClaim == InitClaim /\ [][NextClaim]_vars

\* C3: a resource claim reveals the donor's contact details only if the
\* caller is authenticated, is a student, is verified, and is not the author
\* of the claimed post.
C3_RevealOnlyIfEligible ==
    [][(donorDetails' # donorDetails /\ donorDetails' # NoPost) =>
        /\ user # NoUser
        /\ profile.role = "student"
        /\ profile.verification_status = "verified"
        /\ donorDetails'.user_id # user]_vars

\* C3 witness: a verified student has claimed another user's donation.
C3_Witness ==
    /\ lastOp.op = "claim"
    /\ donorDetails # NoPost
    /\ donorDetails.id = lastOp.id
    /\ donorDetails.user_id # user

----------------------------------------------------------------------------
\* The like toggle.

LikeFrame ==
    UNCHANGED <<loading, uiVars, authVars, chanVars, fetches, ops, nextTmp, formVars>>

\* Mutant: the optimistic like list always gets a new like.
optimisticLikes_Append(post, u) ==
    Append(Likes(post), [id |-> "now", post_id |-> post.id, user_id |-> u])

\* The optimistic like list, computed from the post object the button was
\* rendered with.
optimisticLikes(post, u) ==
    IF u \in LikeUsers(post)
    THEN SelectSeq(Likes(post), LAMBDA l : l.user_id # u)
    ELSE Append(Likes(post), [id |-> "now", post_id |-> post.id, user_id |-> u])

\* handleLikeToggle up to its first await: the guard, the optimistic patch,
\* and the remote call that is issued.  The click is a user event, so React
\* commits the re-render before the next event.
handleLikeToggle(post) ==
    /\ mounted
    /\ acts < MaxActs
    /\ acts' = acts + 1
    /\ IF user = NoUser \/ profile = NoProfile
       THEN /\ toast' = "Please sign in to like posts."
            /\ lastOp' = [op |-> "likeRefused", id |-> post.id]
            /\ UNCHANGED <<posts, shown, rendered, calls, dbl>>
       ELSE /\ RenderWith(updatePostInState(posts, post.id,
                              [likes |-> optimisticLikes(post, user)]),
                          searchQuery, filter, sortBy)
            /\ calls' = calls (+) SetToBag({
                  [kind |-> IF user \in LikeUsers(post) THEN "unlike" ELSE "like",
                   post_id |-> post.id, user_id |-> user, author |-> post.user_id]})
            /\ dbl' = IF dbl.n = 1 /\ dbl.id = post.id
                      THEN [dbl EXCEPT !.n = 2]
                      ELSE [n |-> 1, id |-> post.id,
                            orig |-> IF post.id \in Ids(posts)
                                     THEN LikeUsers(PostOf(posts, post.id))
                                     ELSE {}]
            /\ lastOp' = [op |-> "likeToggle", id |-> post.id]
            /\ toast' = toast
    /\ UNCHANGED <<storeVars, events, notified>>
    /\ LikeFrame

\* <Button onClick={() => handleLikeToggle(post)} disabled={!user}>
LikeClick(post) == user # NoUser /\ handleLikeToggle(post)

HasLikeRow(p, u) ==
    \E i \in 1..Len(sLikes) : sLikes[i].post_id = p /\ sLikes[i].user_id = u

\* What awaiting a supabase-js call can give.  The client resolves with
\* { data, error } for failures of the store and of the network alike; it
\* does not reject, so no await in the handlers throws.
CallResults == {"ok", "error"}

\* The store executes the like mutation and the handler resumes behind its
\* await.  The result's error is not read: after an insert, failed or not,
\* the notification is requested when the author is someone else.  The catch
\* block (toast, fetchPosts) runs for a rejected call only.
LikeCallDone(c, res) ==
    /\ c \in BagToSet(calls) /\ c.kind \in {"like", "unlike"}
    /\ calls' = calls (-) SetToBag({c})
    /\ LET applies == /\ res = "ok"
                      /\ Live(c.post_id)
                      /\ (c.kind = "like") # HasLikeRow(c.post_id, c.user_id)
           failed == res # "ok" \/ (c.kind = "like" /\ ~applies)
       IN /\ sLikes' =
                IF ~applies THEN sLikes
                ELSE IF c.kind = "like"
                THEN Append(sLikes, [id |-> "srv", post_id |-> c.post_id,
                                     user_id |-> c.user_id])
                ELSE SelectSeq(sLikes, LAMBDA l :
                        ~(l.post_id = c.post_id /\ l.user_id = c.user_id))
          /\ events' = IF applies /\ Subscribed
                       THEN Append(events,
                              [table |-> "likes",
                               type |-> IF c.kind = "like" THEN "INSERT" ELSE "DELETE",
                               post_id |-> c.post_id])
                       ELSE events
          /\ lastOp' = [op |-> "likeDone", kind |-> c.kind, id |-> c.post_id,
                        failed |-> failed]
    /\ IF res = "rejected"
       THEN /\ mounted /\ CanFetch
            /\ toast' = "Could not update like."
            /\ fetches' = fetchPostsStart(fetches)
            /\ notified' = notified
       ELSE /\ notified' =
                 IF mounted /\ c.kind = "like" /\ c.author # c.user_id
                 THEN notified \cup {[type |-> "like", p_user_id |-> c.author,
                                      p_actor_id |-> c.user_id,
                                      p_post_id |-> c.post_id]}
                 ELSE notified
            /\ UNCHANGED <<toast, fetches>>
    /\ UNCHANGED <<posts, shown, rendered, sPosts, sComments, acts, dbl>>
    /\ UNCHANGED <<loading, uiVars, authVars, chanVars, ops, nextTmp, formVars>>

\* The signed-in user looks at a feed that holds one post of u1.
InitLike ==
    /\ InitComponent
    /\ InitMounted
    /\ fetches = fetchPostsStart(EmptyBag)
    /\ user \in Users
    /\ profile \in {[role |-> "student", verification_status |-> "verified"],
                    NoProfile}
    /\ sPosts = [p \in PostIds |-> IF p = "p1" THEN SeedRow("u1") ELSE NoRow]
    /\ sLikes = <<>>
    /\ sComments = <<>>

NextLike ==
    \/ \E i \in 1..Len(shown) : LikeClick(shown[i])
    \/ \E c \in BagToSet(calls), res \in CallResults : LikeCallDone(c, res)
    \/ \E u \in Users \ {user} : StoreLike("p1", u)
    \/ DeliverLikes
    \/ Fetching
    \/ Render

SpecLike == InitLike /\ [][NextLike]_vars

\* C1: two like toggles in succession on a post, with no other write to the
\* container in between, leave the post's like list with the same set of
\* liking users as before the first toggle, whenever the two remote calls
\* complete.
C1_DoubleToggleRestores ==
    (dbl.n = 2 /\ dbl.id \in Ids(posts)) =>
        LikeUsers(PostOf(posts, dbl.id)) = dbl.orig

----------------------------------------------------------------------------
\* Comments.

\* String.prototype.trim on a text of characters.
RECURSIVE trimStart(_)
trimStart(t) == IF t # <<>> /\ Head(t) = " " THEN trimStart(Tail(t)) ELSE t

RECURSIVE trimEnd(_)
trimEnd(t) ==
    IF t # <<>> /\ t[Len(t)] = " " THEN trimEnd(SubSeq(t, 1, Len(t) - 1)) ELSE t

\* Mutant: the text is taken as typed.
trim_Keep(t) == t

trim(t) == trimEnd(trimStart(t))

\* What the user types into a comment box.
Drafts == {<<" ", "c">>}

CommentFrame ==
    UNCHANGED <<loading, filter, sortBy, searchQuery, donorDetails, route,
                authVars, chanVars, sPosts, sLikes, ops, dbl, formVars>>

\* setNewComments(prev => ({ ...prev, [postId]: text }))
handleCommentChange(postId, text) ==
    /\ mounted
    /\ newComments[postId] # text
    /\ newComments' = [newComments EXCEPT ![postId] = text]
    /\ RenderWith(posts, searchQuery, filter, sortBy)
    /\ lastOp' = [op |-> "commentChange", id |-> postId]
    /\ UNCHANGED <<toast, fetches, calls, events, notified, sComments, acts,
                   nextTmp>>
    /\ CommentFrame

\* Mutant: the synthesized comment is put in front.
appendComment_Prepend(ps, postId, c) ==
    [i \in 1..Len(ps) |->
        IF ps[i].id = postId
        THEN Merge(ps[i], [comments |-> <<c>> \o Comments(ps[i])])
        ELSE ps[i]]

\* p.id === postId ? { ...p, comments: [...(p.comments || []), c] } : p
appendComment(ps, postId, c) ==
    [i \in 1..Len(ps) |->
        IF ps[i].id = postId
        THEN Merge(ps[i], [comments |-> Append(Comments(ps[i]), c)])
        ELSE ps[i]]

\* Mutant: the rollback drops the last comment of the post.
rollbackComment_DropLast(ps, postId, tmpId) ==
    [i \in 1..Len(ps) |->
        IF ps[i].id = postId /\ Comments(ps[i]) # <<>>
        THEN Merge(ps[i], [comments |->
                SubSeq(ps[i].comments, 1, Len(ps[i].comments) - 1)])
        ELSE ps[i]]

\* p.id === postId ? { ...p, comments: p.comments?.filter(c => c.id !== tmpId) } : p
rollbackComment(ps, postId, tmpId) ==
    [i \in 1..Len(ps) |->
        IF ps[i].id = postId /\ "comments" \in DOMAIN ps[i]
        THEN Merge(ps[i], [comments |->
                SelectSeq(ps[i].comments, LAMBDA c : c.id # tmpId)])
        ELSE ps[i]]

\* handleAddComment up to its first await: the guard, the synthesized
\* comment appended by a functional update, the draft cleared, and the
\* remote insert issued.  `author` is what posts.find will see behind the
\* await: the handler reads the posts array of the render it was made in.
handleAddComment(postId) ==
    /\ mounted
    /\ acts < MaxActs
    /\ acts' = acts + 1
    /\ LET commentText == trim(newComments[postId])
       IN IF user = NoUser \/ commentText = <<>> \/ profile = NoProfile
          THEN /\ toast' = "Please sign in and write a comment."
               /\ lastOp' = [op |-> "commentRefused", id |-> postId]
               /\ UNCHANGED <<posts, shown, rendered, newComments, calls, nextTmp>>
          ELSE /\ RenderWith(appendComment(posts, postId,
                                [id |-> <<"tmp", nextTmp + 1>>, post_id |-> postId,
                                 user_id |-> user, content |-> commentText,
                                 profiles |-> profile]),
                             searchQuery, filter, sortBy)
               /\ newComments' = [newComments EXCEPT ![postId] = <<>>]
               /\ nextTmp' = nextTmp + 1
               /\ calls' = calls (+) SetToBag({
                     [kind |-> "comment", post_id |-> postId, user_id |-> user,
                      content |-> commentText, tmp |-> <<"tmp", nextTmp + 1>>,
                      author |-> IF postId \in Ids(rendered)
                                 THEN PostOf(rendered, postId).user_id
                                 ELSE NoUser]})
               /\ lastOp' = [op |-> "addComment", id |-> postId,
                             tmp |-> <<"tmp", nextTmp + 1>>]
               /\ toast' = toast
    /\ UNCHANGED <<fetches, events, notified, sComments>>
    /\ CommentFrame

\* The store executes the insert and the handler resumes behind its await.
\* On an error: the targeted rollback, then the error is surfaced; no
\* refetch.  Otherwise: the notification for another author's post, then
\* fetchPosts().
CommentCallDone(c, fails) ==
    /\ mounted
    /\ c \in BagToSet(calls) /\ c.kind = "comment"
    /\ fails \/ Live(c.post_id)
    /\ calls' = calls (-) SetToBag({c})
    /\ IF fails
       THEN /\ posts' = rollbackComment(posts, c.post_id, c.tmp)
            /\ toast' = "Failed to add comment."
            /\ lastOp' = [op |-> "commentFailed", id |-> c.post_id, tmp |-> c.tmp]
            /\ UNCHANGED <<fetches, events, notified, sComments>>
       ELSE /\ CanFetch
            /\ sComments' = Append(sComments,
                              [id |-> <<"srv", Len(sComments) + 1>>,
                               post_id |-> c.post_id, user_id |-> c.user_id,
                               content |-> c.content])
            /\ events' = IF Subscribed
                         THEN Append(events, [table |-> "comments",
                                 type |-> "INSERT", post_id |-> c.post_id])
                         ELSE events
            /\ notified' = IF c.author # NoUser /\ c.author # c.user_id
                           THEN notified \cup {[type |-> "comment",
                                    p_user_id |-> c.author, p_actor_id |-> c.user_id,
                                    p_post_id |-> c.post_id]}
                           ELSE notified
            /\ fetches' = fetchPostsStart(fetches)
            /\ lastOp' = [op |-> "commentDone", id |-> c.post_id, tmp |-> c.tmp]
            /\ UNCHANGED <<posts, toast>>
    /\ UNCHANGED <<shown, rendered, newComments, acts, nextTmp>>
    /\ CommentFrame

\* A verified student looks at a feed of two posts, the older one their
\* own, the newer one their own or another user's.
InitComment ==
    /\ InitComponent
    /\ InitMounted
    /\ fetches = fetchPostsStart(EmptyBag)
    /\ user = "u1"
    /\ profile = [role |-> "student", verification_status |-> "verified"]
    /\ \E a \in Users :
          sPosts = [p \in PostIds |->
                      IF p = "p1" THEN NewRow("u1", <<1, 0>>, "wisdom")
                      ELSE IF p = "p2" THEN NewRow(a, <<2, 0>>, "wisdom")
                      ELSE NoRow]
    /\ sLikes = <<>>
    /\ sComments \in {<<>>, <<SeedComment>>}

NextComment ==
    \/ \E text \in Drafts :
            "p2" \in Ids(shown) /\ handleCommentChange("p2", text)
    \/ \E i \in 1..Len(shown) : handleAddComment(shown[i].id)
    \/ \E c \in BagToSet(calls), fails \in BOOLEAN : CommentCallDone(c, fails)
    \/ DeliverComments
    \/ Fetching
    \/ Render

SpecComment == InitComment /\ [][NextComment]_vars

\* C2: when the remote comment insert fails, the rollback removes from the
\* target post exactly the comment with the temporary identifier that call
\* synthesized; the post's other comments keep their order and its other
\* fields their values, every other post is unchanged, and no refetch is
\* issued.
C2_TargetedRollback ==
    [][lastOp'.op = "commentFailed" =>
        /\ fetches' = fetches
        /\ Len(posts') = Len(posts)
        /\ \A i \in 1..Len(posts) :
              IF posts[i].id = lastOp'.id
              THEN /\ DOMAIN posts'[i] = DOMAIN posts[i]
                   /\ \A k \in DOMAIN posts[i] \ {"comments"} :
                          posts'[i][k] = posts[i][k]
                   /\ Comments(posts'[i]) =
                        SelectSeq(Comments(posts[i]),
                                  LAMBDA c : c.id # lastOp'.tmp)
                   /\ \A j \in 1..Len(Comments(posts[i])) :
                          Comments(posts[i])[j].id = lastOp'.tmp
                              => Comments(posts[i])[j].user_id = user
              ELSE posts'[i] = posts[i]]_vars

\* A failed insert is rolled back while another synthesized comment of the
\* same post is still pending and stays in the list.
C2_Witness ==
    /\ lastOp.op = "commentFailed"
    /\ lastOp.id \in Ids(posts)
    /\ \E c \in BagToSet(calls) :
          /\ c.kind = "comment" /\ c.post_id = lastOp.id
          /\ \E j \in 1..Len(Comments(PostOf(posts, lastOp.id))) :
                Comments(PostOf(posts, lastOp.id))[j].id = c.tmp
    /\ \A j \in 1..Len(Comments(PostOf(posts, lastOp.id))) :
          Comments(PostOf(posts, lastOp.id))[j].id # lastOp.tmp
    /\ Len(posts) = 2

\* Nothing is in flight: no remote call, no query, no undelivered event.
Quiescent == calls = EmptyBag /\ fetches = EmptyBag /\ events = <<>>

StoreLikeUsers(p) ==
    {sLikes[i].user_id : i \in {k \in 1..Len(sLikes) : sLikes[k].post_id = p}}

\* The container holds the store's posts, each once, with the store's likes
\* and comments.
SameAsStore ==
    /\ Ids(posts) = {p \in PostIds : Live(p)}
    /\ Len(posts) = Cardinality(Ids(posts))
    /\ \A i \in 1..Len(posts) :
          /\ LikeUsers(posts[i]) = StoreLikeUsers(posts[i].id)
          /\ Comments(posts[i]) =
                SelectSeq(sComments, LAMBDA c : c.post_id = posts[i].id)

\* C15: once every remote call and refetch has completed and every event has
\* been delivered, and no fetch error was surfaced, the container holds
\* exactly the store's posts, likes and comments; an unconfirmed optimistic
\* like does not persist.
C15_EventuallyConsistent ==
    (mounted /\ Quiescent /\ ~loading /\ toast = "none") => SameAsStore

\* C16: when the remote like insert or delete fails, a full refetch is issued
\* and an error is surfaced.
C16_LikeFailureRefetches ==
    [][(lastOp'.op = "likeDone" /\ lastOp'.failed) =>
        /\ fetches' = fetchPostsStart(fetches)
        /\ toast' = "Could not update like."]_vars

----------------------------------------------------------------------------
\* Links.  A text is a sequence of tokens; a link is one token.

Urls == {"http://x", "http://google.com", "http://wikipedia.org"}
NoUrl == "null"

\* text.match(URL_REGEX): the first link of the text, or null.
RECURSIVE matchUrl(_)
matchUrl(t) ==
    IF t = <<>> THEN NoUrl
    ELSE IF Head(t) \in Urls THEN Head(t)
    ELSE matchUrl(Tail(t))

fetchRichLinkPreview(url) ==
    IF url = "http://google.com"
    THEN [url |-> url, title |-> "Google", description |-> "Search",
          image |-> "googlelogo"]
    ELSE IF url = "http://wikipedia.org"
    THEN [url |-> url, title |-> "Wikipedia", description |-> "Encyclopedia",
          image |-> "wikipedialogo"]
    ELSE [url |-> url, title |-> url, description |-> "null", image |-> "null"]

\* linkPreview?.field || null
PreviewField(pv, k) == IF k \in DOMAIN pv THEN pv[k] ELSE "null"

----------------------------------------------------------------------------
\* The composer.  It is rendered for a signed-in user with a profile; its
\* inputs are disabled while a submission is under way.

ComposerShown == user # NoUser /\ profile # NoProfile

ComposerTypes == {"wisdom", "donation", "seeking"}
ContentDrafts == {<<" ">>, <<"a">>}
TitleDrafts == {<<>>, <<"A", "b">>}
Categories == {"", "books"}
ContactDrafts == {<<>>, <<"c">>}
Files == {NoFile, "img"}

SubmitFrame ==
    UNCHANGED <<loading, uiVars, authVars, chanVars, fetches, events, notified,
                storeVars, ops, nextTmp, dbl, editingPost, editedContent,
                postToDelete, loadingLinkPreview>>

ComposerInput ==
    /\ mounted /\ ComposerShown /\ ~submitting
    /\ RenderWith(posts, searchQuery, filter, sortBy)
    /\ lastOp' = [op |-> "composerInput", cleared |-> timers \ timers']
    /\ UNCHANGED <<toast, calls, acts, submitting, linkPreview>>
    /\ SubmitFrame

\* Tabs onValueChange; the seeking tab is disabled for non-students.
setComposerType(v) ==
    /\ v # composerType
    /\ v = "seeking" => profile.role = "student"
    /\ composerType' = v
    /\ UNCHANGED <<content, resourceTitle, resourceCategory, resourceContact,
                   postImageFile, timers>>
    /\ ComposerInput

\* Mutant: the effect's cleanup does not clear the timer of the run before.
schedulePreview_NoCleanup(ts, old, new) == ts \cup {[text |-> new]}

\* The effect on [content] runs again when the text has changed: the cleanup
\* of the run before clears the timer that run set (its callback holds the
\* text of that render), then a new timer is set.
schedulePreview(ts, old, new) == (ts \ {[text |-> old]}) \cup {[text |-> new]}

\* <Textarea onChange={(e) => setContent(e.target.value)}>
setContent(t) ==
    /\ composerType = "wisdom" /\ t # content
    /\ content' = t
    /\ timers' = schedulePreview(timers, content, t)
    /\ UNCHANGED <<composerType, resourceTitle, resourceCategory,
                   resourceContact, postImageFile>>
    /\ ComposerInput

setResourceTitle(t) ==
    /\ composerType # "wisdom" /\ t # resourceTitle
    /\ resourceTitle' = t
    /\ UNCHANGED <<composerType, content, resourceCategory, resourceContact,
                   postImageFile, timers>>
    /\ ComposerInput

setResourceCategory(v) ==
    /\ composerType # "wisdom" /\ v # resourceCategory /\ v # ""
    /\ resourceCategory' = v
    /\ UNCHANGED <<composerType, content, resourceTitle, resourceContact,
                   postImageFile, timers>>
    /\ ComposerInput

setResourceContact(t) ==
    /\ composerType = "donation" /\ t # resourceContact
    /\ resourceContact' = t
    /\ UNCHANGED <<composerType, content, resourceTitle, resourceCategory,
                   postImageFile, timers>>
    /\ ComposerInput

setPostImageFile(f) ==
    /\ f # postImageFile
    /\ postImageFile' = f
    /\ UNCHANGED <<composerType, content, resourceTitle, resourceCategory,
                   resourceContact, timers>>
    /\ ComposerInput

\* Mutant: the Post button stays enabled for an empty wisdom text.
isSubmitDisabled_NoWisdomCheck ==
    \/ submitting
    \/ composerType \in {"donation", "seeking"}
         /\ (trim(resourceTitle) = <<>> \/ resourceCategory = "")
    \/ composerType = "donation" /\ trim(resourceContact) = <<>>

\* The Post button's disabled attribute.
isSubmitDisabled ==
    \/ submitting
    \/ composerType = "wisdom" /\ trim(content) = <<>>
    \/ composerType \in {"donation", "seeking"}
         /\ (trim(resourceTitle) = <<>> \/ resourceCategory = "")
    \/ composerType = "donation" /\ trim(resourceContact) = <<>>

\* postData as handlePostSubmit builds it (undefined fields left out).
postBase ==
    IF composerType = "wisdom"
    THEN [user_id |-> user, post_type |-> composerType, content |-> trim(content)]
    ELSE IF composerType = "seeking"
    THEN [user_id |-> user, post_type |-> composerType,
          resource_title |-> trim(resourceTitle),
          resource_category |-> resourceCategory]
    ELSE [user_id |-> user, post_type |-> composerType,
          resource_title |-> trim(resourceTitle),
          resource_category |-> resourceCategory,
          resource_contact |-> trim(resourceContact)]

postData ==
    LET withUrl == IF matchUrl(content) # NoUrl
                   THEN Merge(postBase, [link_url |-> matchUrl(content)])
                   ELSE postBase
    IN IF composerType = "wisdom" /\ linkPreview # NoPreview
       THEN Merge(withUrl, [link_title |-> linkPreview.title,
                            link_description |-> linkPreview.description,
                            link_image |-> linkPreview.image])
       ELSE withUrl

ComposerFields ==
    <<composerType, content, resourceTitle, resourceCategory, resourceContact,
      postImageFile, linkPreview>>

\* Mutant: the submit handler leaves the link preview in place.
handlePostSubmit_KeepPreview ==
    IF user = NoUser \/ profile = NoProfile \/ submitting
    THEN /\ lastOp' = [op |-> "submitRefused"]
         /\ UNCHANGED <<ComposerFields, submitting, toast, calls, timers>>
    ELSE IF /\ composerType \in {"donation", "seeking"}
            /\ (trim(resourceTitle) = <<>> \/ resourceCategory = "")
    THEN /\ toast' = "Please fill out resource title and category."
         /\ lastOp' = [op |-> "submitInvalid"]
         /\ UNCHANGED <<ComposerFields, submitting, calls, timers>>
    ELSE IF composerType = "donation" /\ trim(resourceContact) = <<>>
    THEN /\ toast' = "Please provide contact info for donation."
         /\ lastOp' = [op |-> "submitInvalid"]
         /\ UNCHANGED <<ComposerFields, submitting, calls, timers>>
    ELSE /\ submitting' = TRUE
         /\ content' = <<>>
         /\ resourceTitle' = <<>>
         /\ resourceCategory' = ""
         /\ resourceContact' = <<>>
         /\ postImageFile' = NoFile
         /\ linkPreview' = linkPreview
         /\ timers' = IF content # <<>>
                      THEN schedulePreview(timers, content, <<>>)
                      ELSE timers
         /\ composerType' = composerType
         /\ calls' = calls (+) SetToBag({
               [kind |-> IF postImageFile # NoFile THEN "upload" ELSE "insertPost",
                data |-> postData]})
         /\ lastOp' = [op |-> "submit", file |-> postImageFile, data |-> postData]
         /\ toast' = toast

\* handlePostSubmit up to its first await.
handlePostSubmit ==
    IF user = NoUser \/ profile = NoProfile \/ submitting
    THEN /\ lastOp' = [op |-> "submitRefused"]
         /\ UNCHANGED <<ComposerFields, submitting, toast, calls, timers>>
    ELSE IF /\ composerType \in {"donation", "seeking"}
            /\ (trim(resourceTitle) = <<>> \/ resourceCategory = "")
    THEN /\ toast' = "Please fill out resource title and category."
         /\ lastOp' = [op |-> "submitInvalid"]
         /\ UNCHANGED <<ComposerFields, submitting, calls, timers>>
    ELSE IF composerType = "donation" /\ trim(resourceContact) = <<>>
    THEN /\ toast' = "Please provide contact info for donation."
         /\ lastOp' = [op |-> "submitInvalid"]
         /\ UNCHANGED <<ComposerFields, submitting, calls, timers>>
    ELSE /\ submitting' = TRUE
         /\ content' = <<>>
         /\ resourceTitle' = <<>>
         /\ resourceCategory' = ""
         /\ resourceContact' = <<>>
         /\ postImageFile' = NoFile
         /\ linkPreview' = NoPreview
         /\ timers' = IF content # <<>>
                      THEN schedulePreview(timers, content, <<>>)
                      ELSE timers
         /\ composerType' = composerType
         /\ calls' = calls (+) SetToBag({
               [kind |-> IF postImageFile # NoFile THEN "upload" ELSE "insertPost",
                data |-> postData]})
         /\ lastOp' = [op |-> "submit", file |-> postImageFile, data |-> postData]
         /\ toast' = toast

\* Mutant: the submit handler puts the new post into the container itself.
SubmitAttempt_Optimistic ==
    /\ mounted
    /\ acts < MaxActs
    /\ acts' = acts + 1
    /\ IF ~ComposerShown \/ isSubmitDisabled
       THEN /\ lastOp' = [op |-> "submitBlocked"]
            /\ UNCHANGED <<ComposerFields, submitting, toast, calls, posts, shown,
                           rendered, timers>>
       ELSE /\ handlePostSubmit
            /\ RenderWith(addPostToState(posts,
                               Merge(postData, [id |-> "p3", created_at |-> <<3, 0>>])),
                          searchQuery, filter, sortBy)
    /\ SubmitFrame

\* The user goes for the Post button: nothing runs when the composer is not
\* rendered or the button is disabled.
SubmitAttempt ==
    /\ mounted
    /\ acts < MaxActs
    /\ acts' = acts + 1
    /\ IF ~ComposerShown \/ isSubmitDisabled
       THEN /\ lastOp' = [op |-> "submitBlocked"]
            /\ UNCHANGED <<ComposerFields, submitting, toast, calls, posts, shown,
                           rendered, timers>>
       ELSE /\ handlePostSubmit
            /\ RenderWith(posts, searchQuery, filter, sortBy)
    /\ SubmitFrame

\* Mutant: a failed upload is sent again.
UploadDone_Retry(c, res) ==
    /\ mounted
    /\ c \in BagToSet(calls) /\ c.kind = "upload"
    /\ IF res = "ok"
       THEN /\ calls' = (calls (-) SetToBag({c}))
                          (+) SetToBag({[kind |-> "insertPost",
                                         data |-> Merge(c.data, [image_url |-> "img"])]})
            /\ UNCHANGED <<toast, submitting>>
       ELSE /\ calls' = calls
            /\ toast' = "Failed to create post."
            /\ submitting' = FALSE
    /\ lastOp' = [op |-> "uploadDone", ok |-> res = "ok"]
    /\ UNCHANGED <<posts, shown, rendered, acts, ComposerFields, timers>>
    /\ SubmitFrame

\* The upload resolves: on an error the handler throws into its catch,
\* otherwise it goes on to the insert.
UploadDone(c, res) ==
    /\ mounted
    /\ c \in BagToSet(calls) /\ c.kind = "upload"
    /\ IF res = "ok"
       THEN /\ calls' = (calls (-) SetToBag({c}))
                          (+) SetToBag({[kind |-> "insertPost",
                                         data |-> Merge(c.data, [image_url |-> "img"])]})
            /\ UNCHANGED <<toast, submitting>>
       ELSE /\ calls' = calls (-) SetToBag({c})
            /\ toast' = "Failed to create post."
            /\ submitting' = FALSE
    /\ lastOp' = [op |-> "uploadDone", ok |-> res = "ok"]
    /\ UNCHANGED <<posts, shown, rendered, acts, ComposerFields, timers>>
    /\ SubmitFrame

\* Mutant: the flag is reset after a successful insert only.
PostInsertDone_NoFinally(c, res, p, t) ==
    /\ mounted
    /\ c \in BagToSet(calls) /\ c.kind = "insertPost"
    /\ calls' = calls (-) SetToBag({c})
    /\ IF res = "ok"
       THEN /\ sPosts[p].st = "none" /\ LaterThanAll(t)
            /\ sPosts' = [sPosts EXCEPT
                    ![p] = Merge([st |-> "live", created_at |-> t], c.data)]
            /\ events' = IF Subscribed
                         THEN Append(events, [table |-> "posts", type |-> "INSERT",
                                 new |-> RowOf(p, Merge([st |-> "live",
                                                 created_at |-> t], c.data))])
                         ELSE events
            /\ toast' = "Post created successfully!"
       ELSE /\ toast' = "Failed to create post."
            /\ UNCHANGED <<sPosts, events>>
    /\ submitting' = (res # "ok")
    /\ lastOp' = [op |-> "postInsertDone", ok |-> res = "ok"]
    /\ UNCHANGED <<posts, shown, rendered, acts, ComposerFields>>
    /\ UNCHANGED <<loading, uiVars, authVars, chanVars, fetches, notified,
                   sLikes, sComments, ops, nextTmp, dbl, editingPost,
                   editedContent, postToDelete, previewVars>>

\* The insert resolves; finally setSubmitting(false).
PostInsertDone(c, res, p, t) ==
    /\ mounted
    /\ c \in BagToSet(calls) /\ c.kind = "insertPost"
    /\ calls' = calls (-) SetToBag({c})
    /\ IF res = "ok"
       THEN /\ sPosts[p].st = "none" /\ LaterThanAll(t)
            /\ sPosts' = [sPosts EXCEPT
                    ![p] = Merge([st |-> "live", created_at |-> t], c.data)]
            /\ events' = IF Subscribed
                         THEN Append(events, [table |-> "posts", type |-> "INSERT",
                                 new |-> RowOf(p, Merge([st |-> "live",
                                                 created_at |-> t], c.data))])
                         ELSE events
            /\ toast' = "Post created successfully!"
       ELSE /\ toast' = "Failed to create post."
            /\ UNCHANGED <<sPosts, events>>
    /\ submitting' = FALSE
    /\ lastOp' = [op |-> "postInsertDone", ok |-> res = "ok"]
    /\ UNCHANGED <<posts, shown, rendered, acts, ComposerFields>>
    /\ UNCHANGED <<loading, uiVars, authVars, chanVars, fetches, notified,
                   sLikes, sComments, ops, nextTmp, dbl, editingPost,
                   editedContent, postToDelete, previewVars>>

\* The feed has loaded one post of another user; the visitor is signed out,
\* signed in without a profile yet, or signed in as a student.
InitSubmit ==
    /\ InitForm
    /\ InitMounted
    /\ loading = FALSE
    /\ filter = "all" /\ sortBy = "created_at" /\ searchQuery = <<>>
    /\ donorDetails = NoPost
    /\ newComments = [p \in PostIds |-> <<>>]
    /\ toast = "none" /\ route = "feed"
    /\ fetches = EmptyBag /\ calls = EmptyBag /\ events = <<>> /\ notified = {}
    /\ ops = 0 /\ acts = 0 /\ nextTmp = 0
    /\ dbl = [n |-> 0] /\ lastOp = [op |-> "init"]
    /\ \/ user = NoUser /\ profile = NoProfile
       \/ user = "u1" /\ profile = NoProfile
       \/ user = "u1" /\ profile = [role |-> "student",
                                     verification_status |-> "verified"]
    /\ sPosts = [p \in PostIds |-> IF p = "p1" THEN SeedRow("u2") ELSE NoRow]
    /\ sLikes = <<>>
    /\ sComments = <<>>
    /\ posts = Snapshot
    /\ shown = Snapshot
    /\ rendered = Snapshot

\* The identifier and the clock value the store gives to a new post.
NewPosts == {[id |-> "p2", at |-> <<2, 0>>], [id |-> "p3", at |-> <<3, 0>>]}

NextSubmit ==
    \/ \E v \in ComposerTypes : setComposerType(v)
    \/ \E t \in ContentDrafts : setContent(t)
    \/ \E t \in TitleDrafts : setResourceTitle(t)
    \/ \E v \in Categories : setResourceCategory(v)
    \/ \E t \in ContactDrafts : setResourceContact(t)
    \/ \E f \in Files : setPostImageFile(f)
    \/ SubmitAttempt
    \/ \E c \in BagToSet(calls), res \in CallResults : UploadDone(c, res)
    \/ \E c \in BagToSet(calls), res \in CallResults, n \in NewPosts :
          PostInsertDone(c, res, n.id, n.at)
    \/ DeliverPostInsert
    \/ Render

SpecSubmit == InitSubmit /\ [][NextSubmit]_vars

Blank(t) == \A i \in 1..Len(t) : t[i] = " "

\* A submission the composer must not send.
InvalidSubmission ==
    \/ user = NoUser
    \/ profile = NoProfile
    \/ composerType = "wisdom" /\ Blank(content)
    \/ composerType \in {"donation", "seeking"}
         /\ (Blank(resourceTitle) \/ resourceCategory = "")
    \/ composerType = "donation" /\ Blank(resourceContact)

SubmitOps == {"submit", "submitBlocked", "submitRefused", "submitInvalid"}

\* C17: a submission by a caller without session or profile, or with a
\* required field of the post kind missing, issues no upload and no insert
\* and leaves the composer fields as they are.
C17_InvalidSubmitStaysLocal ==
    [][(lastOp'.op \in SubmitOps /\ InvalidSubmission) =>
        /\ calls' = calls
        /\ sPosts' = sPosts
        /\ ComposerFields' = ComposerFields]_vars

\* A signed-in user with a profile went for the Post button with a wisdom
\* text of blanks only: nothing was sent, the text is still there.
C17_Witness ==
    /\ lastOp.op = "submitBlocked"
    /\ ComposerShown
    /\ composerType = "wisdom" /\ content = <<" ">>
    /\ calls = EmptyBag

----------------------------------------------------------------------------
\* Deleting a post.  The Delete menu item is rendered for the posts whose
\* user_id is the signed-in user's; it opens the confirmation dialog, whose
\* Delete button runs handleDeletePost.

DeleteFrame ==
    UNCHANGED <<loading, uiVars, authVars, chanVars, notified, ops, nextTmp, dbl,
                composerType, content, resourceTitle, resourceCategory,
                resourceContact, postImageFile, submitting, linkPreview,
                editingPost, editedContent, previewVars>>

\* <DropdownMenuItem onClick={() => setPostToDelete(post)}>
SelectPostToDelete(post) ==
    /\ mounted
    /\ user # NoUser /\ user = post.user_id
    /\ postToDelete = NoPost
    /\ postToDelete' = post
    /\ RenderWith(posts, searchQuery, filter, sortBy)
    /\ lastOp' = [op |-> "selectDelete", id |-> post.id]
    /\ UNCHANGED <<toast, fetches, calls, events, storeVars, acts>>
    /\ DeleteFrame

\* <AlertDialogCancel onClick={() => setPostToDelete(null)}>
CancelDelete ==
    /\ mounted
    /\ postToDelete # NoPost
    /\ postToDelete' = NoPost
    /\ RenderWith(posts, searchQuery, filter, sortBy)
    /\ lastOp' = [op |-> "cancelDelete"]
    /\ UNCHANGED <<toast, fetches, calls, events, storeVars, acts>>
    /\ DeleteFrame

\* handleDeletePost up to its await.  The dialog's action button also closes
\* the dialog (onOpenChange), so the selection is cleared when the handler
\* returns early, too.
handleDeletePost ==
    /\ mounted
    /\ postToDelete # NoPost
    /\ acts < MaxActs
    /\ acts' = acts + 1
    /\ postToDelete' = NoPost
    /\ IF user = NoUser
       THEN /\ RenderWith(posts, searchQuery, filter, sortBy)
            /\ lastOp' = [op |-> "deleteRefused", id |-> postToDelete.id]
            /\ calls' = calls
       ELSE /\ RenderWith(removePostFromState(posts, postToDelete.id),
                          searchQuery, filter, sortBy)
            /\ calls' = calls (+) SetToBag({[kind |-> "deletePost",
                            id |-> postToDelete.id, user_id |-> user]})
            /\ lastOp' = [op |-> "delete", id |-> postToDelete.id,
                          owner |-> postToDelete.user_id, by |-> user]
    /\ UNCHANGED <<toast, fetches, events, storeVars>>
    /\ DeleteFrame

\* The store executes delete().match({ id, user_id }) and the handler
\* resumes: on an error fetchPosts() and the error toast, else the success
\* toast.  A match of no row is no error.
DeletePostDone(c, res) ==
    /\ mounted
    /\ c \in BagToSet(calls) /\ c.kind = "deletePost"
    /\ calls' = calls (-) SetToBag({c})
    /\ IF res = "ok"
       THEN LET hit == Live(c.id) /\ sPosts[c.id].user_id = c.user_id
            IN /\ sPosts' = IF hit THEN [sPosts EXCEPT ![c.id] = GoneRow] ELSE sPosts
               /\ sLikes' = IF hit THEN SelectSeq(sLikes, LAMBDA l : l.post_id # c.id)
                            ELSE sLikes
               /\ sComments' = IF hit
                               THEN SelectSeq(sComments, LAMBDA x : x.post_id # c.id)
                               ELSE sComments
               /\ events' = IF hit /\ Subscribed
                            THEN Append(events, [table |-> "posts", type |-> "DELETE",
                                                 old |-> [id |-> c.id]])
                            ELSE events
               /\ toast' = "Post deleted."
               /\ fetches' = fetches
       ELSE /\ CanFetch
            /\ fetches' = fetchPostsStart(fetches)
            /\ toast' = "Failed to delete post."
            /\ UNCHANGED <<storeVars, events>>
    /\ lastOp' = [op |-> "deleteDone", id |-> c.id, ok |-> res = "ok"]
    /\ UNCHANGED <<posts, shown, rendered, acts, postToDelete>>
    /\ DeleteFrame

\* The feed has loaded a post of each user; u1 is signed in.
InitLoaded ==
    /\ InitForm
    /\ InitMounted
    /\ loading = FALSE
    /\ filter = "all" /\ sortBy = "created_at" /\ searchQuery = <<>>
    /\ donorDetails = NoPost
    /\ newComments = [p \in PostIds |-> <<>>]
    /\ toast = "none" /\ route = "feed"
    /\ fetches = EmptyBag /\ calls = EmptyBag /\ events = <<>> /\ notified = {}
    /\ ops = 0 /\ acts = 0 /\ nextTmp = 0
    /\ dbl = [n |-> 0] /\ lastOp = [op |-> "init"]
    /\ user = "u1"
    /\ profile = [role |-> "student", verification_status |-> "verified"]
    /\ sLikes = <<>>
    /\ sComments = <<>>

InitDelete ==
    /\ InitLoaded
    /\ sPosts = [p \in PostIds |->
                    IF p = "p1" THEN NewRow("u1", <<1, 0>>, "wisdom")
                    ELSE IF p = "p2" THEN NewRow("u2", <<2, 0>>, "wisdom")
                    ELSE NoRow]
    /\ posts = Snapshot
    /\ shown = Snapshot
    /\ rendered = Snapshot

NextDelete ==
    \/ \E i \in 1..Len(shown) : SelectPostToDelete(shown[i])
    \/ CancelDelete
    \/ handleDeletePost
    \/ \E c \in BagToSet(calls), res \in CallResults : DeletePostDone(c, res)
    \/ SignOut
    \/ \E u \in Users : SignIn(u)
    \/ DeliverPostDelete
    \/ Fetching
    \/ Render

SpecDelete == InitDelete /\ [][NextDelete]_vars

\* C18: handleDeletePost changes the container and issues a remote delete
\* only when the acting user owns the post selected for deletion; the store
\* row of another user's post is never deleted.
C18_DeleteOnlyOwn ==
    [][/\ (postToDelete # NoPost /\ lastOp'.op \in {"delete", "deleteRefused"}
             /\ postToDelete.user_id # user)
          => (Ids(posts') = Ids(posts) /\ calls' = calls)
       /\ \A p \in PostIds :
             (Live(p) /\ sPosts'[p].st = "gone" /\ lastOp'.op = "deleteDone")
                => \E c \in BagToSet(calls) :
                      c.kind = "deletePost" /\ c.user_id = sPosts[p].user_id]_vars

\* C19: handleDeletePost removes the post and clears the selection while the
\* remote delete is still in flight; a failed delete issues a refetch, and
\* once that has landed the post is in the container again; a successful
\* delete issues no refetch and leaves the container without the post.
C19_DeleteOptimistic ==
    /\ [][/\ lastOp'.op = "delete" =>
                /\ lastOp'.id \notin Ids(posts')
                /\ postToDelete' = NoPost
                /\ \E c \in BagToSet(calls') :
                      c.kind = "deletePost" /\ c.id = lastOp'.id
          /\ (lastOp'.op = "deleteDone" /\ ~lastOp'.ok) =>
                fetches' = fetchPostsStart(fetches)
          /\ (lastOp'.op = "deleteDone" /\ lastOp'.ok) =>
                /\ fetches' = fetches
                /\ posts' = posts]_vars
    /\ []((Quiescent /\ toast = "Failed to delete post.") =>
             \A p \in PostIds : Live(p) => p \in Ids(posts))

\* The refetch of a failed delete has landed and the post is back.
C19_Witness ==
    /\ lastOp.op = "fetchLand" /\ lastOp.ok
    /\ toast = "Failed to delete post."
    /\ Quiescent
    /\ Ids(posts) = {"p1", "p2"}

----------------------------------------------------------------------------
\* Editing a post.

\* Mutant: the link of the edited text is not recomputed.
editPatch_NoLink(text, pv) ==
    [content |-> text,
     link_url |-> NoUrl,
     link_title |-> PreviewField(pv, "title"),
     link_description |-> PreviewField(pv, "description"),
     link_image |-> PreviewField(pv, "image")]

\* The fields handleUpdatePost writes, locally and remotely.
editPatch(text, pv) ==
    [content |-> text,
     link_url |-> matchUrl(text),
     link_title |-> PreviewField(pv, "title"),
     link_description |-> PreviewField(pv, "description"),
     link_image |-> PreviewField(pv, "image")]

EditDrafts == {<<>>, <<"b">>, <<"b", "http://google.com">>}

EditFrame ==
    UNCHANGED <<loading, uiVars, authVars, chanVars, notified, ops, nextTmp, dbl,
                composerType, content, resourceTitle, resourceCategory,
                resourceContact, postImageFile, submitting, postToDelete,
                timers>>

\* The edit box with Cancel and Save is rendered in the card of the post
\* being edited.
EditBoxShown == editingPost # NoPost /\ editingPost.id \in Ids(shown)

handleEditClick(post) ==
    /\ mounted
    /\ user # NoUser /\ user = post.user_id
    /\ editingPost = NoPost
    /\ acts < MaxActs
    /\ acts' = acts + 1
    /\ editingPost' = post
    /\ editedContent' = IF "content" \in DOMAIN post THEN post.content ELSE <<>>
    /\ IF "content" \in DOMAIN post /\ matchUrl(post.content) # NoUrl
       THEN /\ calls' = calls (+) SetToBag({[kind |-> "preview",
                                            url |-> matchUrl(post.content)]})
            /\ loadingLinkPreview' = TRUE
            /\ linkPreview' = linkPreview
       ELSE /\ calls' = calls
            /\ linkPreview' = NoPreview
            /\ loadingLinkPreview' = loadingLinkPreview
    /\ RenderWith(posts, searchQuery, filter, sortBy)
    /\ lastOp' = [op |-> "editClick", id |-> post.id]
    /\ UNCHANGED <<toast, fetches, events, storeVars>>
    /\ EditFrame

\* fetchRichLinkPreview(...).then(preview => { setLinkPreview(preview);
\* setLoadingLinkPreview(false); })
PreviewDone(c) ==
    /\ mounted
    /\ c \in BagToSet(calls) /\ c.kind = "preview"
    /\ calls' = calls (-) SetToBag({c})
    /\ linkPreview' = fetchRichLinkPreview(c.url)
    /\ loadingLinkPreview' = FALSE
    /\ lastOp' = [op |-> "previewDone"]
    /\ UNCHANGED <<posts, shown, rendered, toast, fetches, events, storeVars,
                   acts, editingPost, editedContent>>
    /\ EditFrame

setEditedContent(t) ==
    /\ mounted /\ EditBoxShown
    /\ t # editedContent
    /\ editedContent' = t
    /\ RenderWith(posts, searchQuery, filter, sortBy)
    /\ lastOp' = [op |-> "setEditedContent"]
    /\ UNCHANGED <<toast, fetches, calls, events, storeVars, acts, editingPost,
                   linkPreview, loadingLinkPreview>>
    /\ EditFrame

handleCancelEdit ==
    /\ mounted /\ EditBoxShown
    /\ editingPost' = NoPost
    /\ editedContent' = <<>>
    /\ linkPreview' = NoPreview
    /\ loadingLinkPreview' = FALSE
    /\ RenderWith(posts, searchQuery, filter, sortBy)
    /\ lastOp' = [op |-> "cancelEdit"]
    /\ UNCHANGED <<toast, fetches, calls, events, storeVars, acts>>
    /\ EditFrame

\* handleUpdatePost up to its await: the optimistic patch, handleCancelEdit(),
\* and the remote update issued with the values of the same render.
handleUpdatePost ==
    /\ mounted /\ EditBoxShown
    /\ acts < MaxActs
    /\ acts' = acts + 1
    /\ IF user = NoUser
       THEN /\ lastOp' = [op |-> "updateRefused"]
            /\ UNCHANGED <<posts, shown, rendered, calls, editingPost,
                           editedContent, linkPreview, loadingLinkPreview>>
       ELSE /\ RenderWith(updatePostInState(posts, editingPost.id,
                              editPatch(editedContent, linkPreview)),
                          searchQuery, filter, sortBy)
            /\ editingPost' = NoPost
            /\ editedContent' = <<>>
            /\ linkPreview' = NoPreview
            /\ loadingLinkPreview' = FALSE
            /\ calls' = calls (+) SetToBag({[kind |-> "updatePost",
                            id |-> editingPost.id, user_id |-> user,
                            data |-> editPatch(editedContent, linkPreview)]})
            /\ lastOp' = [op |-> "update", id |-> editingPost.id]
    /\ UNCHANGED <<toast, fetches, events, storeVars>>
    /\ EditFrame

\* The store executes update(...).match({ id, user_id }) and the handler
\* resumes: on an error fetchPosts() and the error toast, else the success
\* toast.
UpdatePostDone(c, res) ==
    /\ mounted
    /\ c \in BagToSet(calls) /\ c.kind = "updatePost"
    /\ calls' = calls (-) SetToBag({c})
    /\ IF res = "ok"
       THEN LET hit == Live(c.id) /\ sPosts[c.id].user_id = c.user_id
                row == Merge(sPosts[c.id], c.data)
            IN /\ sPosts' = IF hit THEN [sPosts EXCEPT ![c.id] = row] ELSE sPosts
               /\ events' = IF hit /\ Subscribed
                            THEN Append(events, [table |-> "posts", type |-> "UPDATE",
                                                 new |-> RowOf(c.id, row)])
                            ELSE events
               /\ toast' = "Post updated."
               /\ fetches' = fetches
       ELSE /\ CanFetch
            /\ fetches' = fetchPostsStart(fetches)
            /\ toast' = "Failed to update post."
            /\ UNCHANGED <<sPosts, events>>
    /\ lastOp' = [op |-> "updateDone", id |-> c.id, ok |-> res = "ok"]
    /\ UNCHANGED <<posts, shown, rendered, acts, sLikes, sComments, editingPost,
                   editedContent, linkPreview, loadingLinkPreview>>
    /\ EditFrame

\* The feed has loaded a post of each user; the own post holds a link or not.
InitEdit ==
    /\ InitLoaded
    /\ sPosts \in {[p \in PostIds |->
                      IF p = "p1" THEN Merge(NewRow("u1", <<1, 0>>, "wisdom"), d)
                      ELSE IF p = "p2" THEN NewRow("u2", <<2, 0>>, "wisdom")
                      ELSE NoRow] :
                   d \in {[content |-> <<"a">>],
                          editPatch(<<"a", "http://x">>,
                                    fetchRichLinkPreview("http://x"))}}
    /\ posts = Snapshot
    /\ shown = Snapshot
    /\ rendered = Snapshot

NextEdit ==
    \/ \E i \in 1..Len(shown) : handleEditClick(shown[i])
    \/ \E c \in BagToSet(calls) : PreviewDone(c)
    \/ \E t \in EditDrafts : setEditedContent(t)
    \/ handleCancelEdit
    \/ handleUpdatePost
    \/ \E c \in BagToSet(calls), res \in CallResults : UpdatePostDone(c, res)
    \/ DeliverPostUpdate
    \/ Fetching
    \/ Render

SpecEdit == InitEdit /\ [][NextEdit]_vars

LinkFields == {"link_url", "link_title", "link_description", "link_image"}

\* The container shows the store's columns of every post it holds.
ShowsStoreValues ==
    \A i \in 1..Len(posts) :
        /\ Live(posts[i].id)
        /\ \A k \in DOMAIN PostRow(posts[i].id) :
              k \in DOMAIN posts[i] /\ posts[i][k] = PostRow(posts[i].id)[k]

\* C20: handleUpdatePost patches the content and the link fields of the
\* edited post and leaves edit mode while the remote update is in flight,
\* sends the values it applied locally, and on a failed update issues a
\* refetch after which the posts show the store's values again.
C20_EditOptimistic ==
    /\ [][/\ lastOp'.op = "update" =>
                /\ editingPost' = NoPost
                /\ \E c \in BagToSet(calls') :
                      /\ c.kind = "updatePost" /\ c.id = lastOp'.id
                      /\ c.data.content = editedContent
                      /\ c.data.link_url = matchUrl(editedContent)
                      /\ c.data.link_title = PreviewField(linkPreview, "title")
                      /\ lastOp'.id \in Ids(posts') =>
                            \A k \in {"content"} \cup LinkFields :
                                PostOf(posts', lastOp'.id)[k] = c.data[k]
                /\ \A i \in 1..Len(posts') :
                      posts'[i].id # lastOp'.id => posts'[i] \in Range(posts)
          /\ (lastOp'.op = "updateDone" /\ ~lastOp'.ok) =>
                fetches' = fetchPostsStart(fetches)]_vars
    /\ []((Quiescent /\ toast = "Failed to update post.") => ShowsStoreValues)

\* The refetch of a failed update has landed: the post shows the store's
\* text and not the edit.
C20_Witness ==
    /\ lastOp.op = "fetchLand" /\ lastOp.ok
    /\ toast = "Failed to update post."
    /\ Quiescent
    /\ editingPost = NoPost
    /\ PostOf(posts, "p1").content = sPosts["p1"].content
    /\ matchUrl(sPosts["p1"].content) # NoUrl

----------------------------------------------------------------------------
\* The link preview of the composer.  The effect on [content] sets a timer
\* of 500 ms; fetchRichLinkPreview answers after another 500 ms.  Timeouts
\* of one length run in the order they were set, and a pending timer was set
\* after every resolution under way was started (setting it cleared the
\* timer before), so a timer fires only when no resolution is under way.

PreviewDrafts == {<<"a">>, <<"a", "http://google.com">>}

PreviewFrame ==
    UNCHANGED <<loading, uiVars, authVars, chanVars, fetches, events, notified,
                storeVars, ops, nextTmp, dbl, editingPost, editedContent,
                postToDelete, posts, shown, rendered, acts, toast, submitting,
                composerType, content, resourceTitle, resourceCategory,
                resourceContact, postImageFile>>

Resolving == \E c \in BagToSet(calls) : c.kind = "linkPreview"

\* The timer's callback, up to its await.
TimerFire(t) ==
    /\ mounted
    /\ t \in timers
    /\ ~Resolving
    /\ timers' = timers \ {t}
    /\ IF matchUrl(t.text) # NoUrl
       THEN /\ loadingLinkPreview' = TRUE
            /\ calls' = calls (+) SetToBag({[kind |-> "linkPreview",
                                             url |-> matchUrl(t.text)]})
            /\ linkPreview' = linkPreview
       ELSE /\ linkPreview' = NoPreview
            /\ UNCHANGED <<loadingLinkPreview, calls>>
    /\ lastOp' = [op |-> "timerFire", text |-> t.text]
    /\ PreviewFrame

\* The callback after its await: setLinkPreview(preview);
\* setLoadingLinkPreview(false).
LinkPreviewDone(c) ==
    /\ mounted
    /\ c \in BagToSet(calls) /\ c.kind = "linkPreview"
    /\ calls' = calls (-) SetToBag({c})
    /\ linkPreview' = fetchRichLinkPreview(c.url)
    /\ loadingLinkPreview' = FALSE
    /\ timers' = timers
    /\ lastOp' = [op |-> "linkPreviewDone", url |-> c.url]
    /\ PreviewFrame

\* The feed has loaded one post of another user; a student is signed in.
InitPreview ==
    /\ InitLoaded
    /\ sPosts = [p \in PostIds |-> IF p = "p1" THEN SeedRow("u2") ELSE NoRow]
    /\ posts = Snapshot
    /\ shown = Snapshot
    /\ rendered = Snapshot

NextPreview ==
    \/ \E t \in PreviewDrafts : setContent(t)
    \/ \E f \in Files : setPostImageFile(f)
    \/ \E t \in timers : TimerFire(t)
    \/ \E c \in BagToSet(calls) : LinkPreviewDone(c)
    \/ SubmitAttempt
    \/ \E c \in BagToSet(calls), res \in CallResults : UploadDone(c, res)
    \/ \E c \in BagToSet(calls), res \in CallResults, n \in NewPosts :
          PostInsertDone(c, res, n.id, n.at)
    \/ DeliverPostInsert
    \/ Render

SpecPreview == InitPreview /\ [][NextPreview]_vars

----------------------------------------------------------------------------
\* Creating a post and the container.

SubmitSteps == SubmitOps \cup {"uploadDone", "postInsertDone"}

\* C21: no step of handlePostSubmit changes the container, whether the insert
\* succeeds or fails; a post enters the container only through a realtime
\* post-insert event or a landed refetch.
C21_SubmitLeavesContainer ==
    [][/\ lastOp'.op \in SubmitSteps => posts' = posts
       /\ ~(Ids(posts') \subseteq Ids(posts)) =>
              lastOp'.op \in {"postInsert", "fetchLand"}]_vars

\* The insert has succeeded, the store holds the new post, the container does
\* not hold it yet.
C21_Witness ==
    /\ lastOp.op = "postInsertDone" /\ lastOp.ok
    /\ \E p \in PostIds : Live(p) /\ p \notin Ids(posts)

Cleared ==
    /\ content = <<>>
    /\ resourceTitle = <<>>
    /\ resourceCategory = ""
    /\ resourceContact = <<>>
    /\ postImageFile = NoFile
    /\ linkPreview = NoPreview

SubmitFailed == lastOp.op \in {"uploadDone", "postInsertDone"} /\ ~lastOp.ok

\* C22: a submit that passed validation clears the composer fields in the
\* step that issues its first remote call, when the store has not been
\* touched yet; a failing upload or insert restores none of them, issues no
\* further call, leaves container and store alone and shows an error.
C22_ClearedNotRestored ==
    [][/\ lastOp'.op = "submit" =>
            /\ Cleared'
            /\ calls' # calls
            /\ sPosts' = sPosts
       /\ SubmitFailed' =>
            /\ ComposerFields' = ComposerFields
            /\ toast' = "Failed to create post."
            /\ posts' = posts /\ sPosts' = sPosts
            /\ fetches' = fetches
            /\ BagCardinality(calls') < BagCardinality(calls)]_vars

\* The only thing the user did was a submit; the insert has failed and the
\* composer is empty.
C22_Witness ==
    /\ SubmitFailed /\ lastOp.op = "postInsertDone"
    /\ acts = 1
    /\ Cleared
    /\ toast = "Failed to create post."

----------------------------------------------------------------------------
\* The debounce of the link preview.

\* C28: every change of the composer text clears the timer set before and
\* sets a new one, so at most one timer is pending, and a timer that fires
\* is the one set for the text the composer holds: a timer superseded by a
\* later change never starts a resolution.
C28_Debounce ==
    /\ [](Cardinality(timers) <= 1)
    /\ [][/\ content' # content => timers' = {[text |-> content']}
          /\ lastOp'.op = "timerFire" => lastOp'.text = content]_vars

\* A keystroke has cleared a timer that was still pending.
C28_Witness ==
    /\ lastOp.op = "composerInput"
    /\ lastOp.cleared # {}
    /\ timers = {[text |-> content]}

----------------------------------------------------------------------------
\* Notifications.

LikeNotification(p, u) ==
    [type |-> "like", p_user_id |-> sPosts[p].user_id, p_actor_id |-> u,
     p_post_id |-> p]

\* C23: when the remote call of a like toggle has completed, a "like"
\* notification has been requested if the toggle was a like, the insert
\* succeeded and the author is someone else; otherwise none is requested.
C23_LikeNotification ==
    [][lastOp'.op = "likeDone" =>
        IF /\ lastOp'.kind = "like"
           /\ ~lastOp'.failed
           /\ sPosts[lastOp'.id].user_id # user
        THEN LikeNotification(lastOp'.id, user) \in notified'
        ELSE notified' = notified]_vars

CommentNotification(p, u) ==
    [type |-> "comment", p_user_id |-> sPosts[p].user_id, p_actor_id |-> u,
     p_post_id |-> p]

\* The comments of the posts in ps.
AllComments(ps) ==
    UNION {Range(Comments(ps[i])) : i \in 1..Len(ps)}

IsTmp(c) == c.id[1] = "tmp"

\* The answers the store gave in this step.
Served(fs, gs) ==
    {f \in BagToSet(gs) : f.st = "data" /\ CopiesIn(f, gs) > CopiesIn(f, fs)}

\* C24: when the remote comment insert has succeeded the store holds the
\* canonical row, the "comment" notification is requested exactly when the
\* post's author is not the commenter, and a refetch is issued.  Every
\* answer the store gives from then on (that refetch's among them) holds
\* the canonical row, and when an answer lands the container holds the rows
\* of that answer and no comment with a temporary identifier.
C24_CommentReconciled ==
    [][/\ lastOp'.op = "commentDone" =>
            /\ IF sPosts[lastOp'.id].user_id # user
               THEN CommentNotification(lastOp'.id, user) \in notified'
               ELSE notified' = notified
            /\ fetches' = fetchPostsStart(fetches)
            /\ Len(sComments') = Len(sComments) + 1
       /\ lastOp'.op = "fetchServe" =>
            \A f \in Served(fetches, fetches') :
                Range(sComments) \subseteq AllComments(f.data)
       /\ (lastOp'.op = "fetchLand" /\ lastOp'.ok) =>
            /\ \E f \in BagToSet(fetches) :
                   f.st = "data" /\ AllComments(posts') = AllComments(f.data)
            /\ \A c \in AllComments(posts') : ~IsTmp(c)]_vars

\* The refetch has landed after the user's comment went into the store: the
\* container holds the canonical row and nothing synthesized.
C24_Witness ==
    /\ lastOp.op = "fetchLand" /\ lastOp.ok
    /\ nextTmp = 1 /\ calls = EmptyBag
    /\ \E c \in AllComments(posts) :
          c \in Range(sComments) /\ c.user_id = user /\ c.content = <<"c">>
    /\ \A c \in AllComments(posts) : ~IsTmp(c)

----------------------------------------------------------------------------
\* The guards of the like and comment handlers.  The handlers are applied in
\* every session state their first lines test: signed out, signed in with
\* the profile not loaded yet, signed in with a profile.

GuardDrafts == {<<" ">>, <<"c">>}

\* The feed has loaded one post of another user.
InitGuards ==
    /\ InitLoaded
    /\ sPosts = [p \in PostIds |-> IF p = "p1" THEN SeedRow("u2") ELSE NoRow]
    /\ posts = Snapshot
    /\ shown = Snapshot
    /\ rendered = Snapshot

NextGuards ==
    \/ SignOut
    \/ SignIn("u1")
    \/ \E pr \in {NoProfile, [role |-> "student",
                                verification_status |-> "verified"]} :
          ProfileLoaded(pr)
    \/ \E i \in 1..Len(shown), text \in GuardDrafts :
          user # NoUser /\ handleCommentChange(shown[i].id, text)
    \/ \E i \in 1..Len(shown) : handleLikeToggle(shown[i])
    \/ \E i \in 1..Len(shown) : handleAddComment(shown[i].id)
    \/ \E c \in BagToSet(calls), res \in CallResults : LikeCallDone(c, res)
    \/ \E c \in BagToSet(calls), fails \in BOOLEAN : CommentCallDone(c, fails)
    \/ Fetching
    \/ Render

SpecGuards == InitGuards /\ [][NextGuards]_vars

\* C25: a like toggle without a signed-in user, and an add-comment without
\* a signed-in user or with a text that is empty after trimming, change
\* neither the container nor the comment drafts and issue no remote call.
C25_GuardsRefuse ==
    [][(\/ lastOp'.op \in {"likeToggle", "likeRefused"} /\ user = NoUser
        \/ /\ lastOp'.op \in {"addComment", "commentRefused"}
           /\ (user = NoUser \/ Blank(newComments[lastOp'.id])))
       => /\ posts' = posts
          /\ newComments' = newComments
          /\ calls' = calls
          /\ fetches' = fetches
          /\ storeVars' = storeVars]_vars

\* Enter was pressed on a comment of blanks: the draft is still there and
\* nothing was sent.
C25_Witness ==
    /\ lastOp.op = "commentRefused"
    /\ user # NoUser /\ profile # NoProfile
    /\ newComments[lastOp.id] = <<" ">>
    /\ calls = EmptyBag

----------------------------------------------------------------------------
\* The five mutating handlers side by side.

\* A student looks at a loaded feed that holds one post of their own.
InitHandlers ==
    /\ InitLoaded
    /\ sPosts = [p \in PostIds |-> IF p = "p1" THEN SeedRow("u1") ELSE NoRow]
    /\ posts = Snapshot
    /\ shown = Snapshot
    /\ rendered = Snapshot

NextHandlers ==
    \/ \E i \in 1..Len(shown) : LikeClick(shown[i])
    \/ \E c \in BagToSet(calls), res \in CallResults : LikeCallDone(c, res)
    \/ \E i \in 1..Len(shown), text \in Drafts :
          handleCommentChange(shown[i].id, text)
    \/ \E i \in 1..Len(shown) : handleAddComment(shown[i].id)
    \/ \E c \in BagToSet(calls), fails \in BOOLEAN : CommentCallDone(c, fails)
    \/ setContent(<<"a">>)
    \/ \E f \in Files : setPostImageFile(f)
    \/ SubmitAttempt
    \/ \E c \in BagToSet(calls), res \in CallResults : UploadDone(c, res)
    \/ \E c \in BagToSet(calls), res \in CallResults, n \in NewPosts :
          PostInsertDone(c, res, n.id, n.at)
    \/ \E i \in 1..Len(shown) : SelectPostToDelete(shown[i])
    \/ handleDeletePost
    \/ \E c \in BagToSet(calls), res \in CallResults : DeletePostDone(c, res)
    \/ \E i \in 1..Len(shown) : handleEditClick(shown[i])
    \/ handleUpdatePost
    \/ \E c \in BagToSet(calls), res \in CallResults : UpdatePostDone(c, res)
    \/ Render

SpecHandlers == InitHandlers /\ [][NextHandlers]_vars

Mutations ==
    {"like", "unlike", "comment", "upload", "insertPost", "deletePost",
     "updatePost"}

\* The remote mutations in flight.
InFlight(b) ==
    BagCardinality([c \in {x \in BagToSet(b) : x.kind \in Mutations} |-> b[c]])

Completions ==
    {"likeDone", "commentDone", "commentFailed", "uploadDone", "postInsertDone",
     "deleteDone", "updateDone"}

\* C26: a remote mutation is issued only in the step of a user action, one
\* per action; the step in which a mutation completes issues none, whether
\* it succeeded or failed, except that a successful upload goes on to the
\* insert of the same submission.
C26_NoRetry ==
    [][/\ InFlight(calls') > InFlight(calls) =>
            /\ acts' = acts + 1
            /\ InFlight(calls') = InFlight(calls) + 1
       /\ lastOp'.op \in Completions =>
            IF lastOp'.op = "uploadDone" /\ lastOp'.ok
            THEN InFlight(calls') = InFlight(calls)
            ELSE InFlight(calls') = InFlight(calls) - 1]_vars

\* The only action was a submit with an image; its upload has failed and
\* no mutation is in flight.
C26_Witness ==
    /\ lastOp.op = "uploadDone" /\ ~lastOp.ok
    /\ acts = 1
    /\ InFlight(calls) = 0

----------------------------------------------------------------------------
\* Refetches and realtime events racing.

\* C27: a refetch that lands with data makes the container that snapshot,
\* whatever the container held before; a realtime post event is applied to
\* the container as it is when the event is delivered.  No write is checked
\* against the age of what it carries.
C27_LastWriteWins ==
    [][/\ (lastOp'.op = "fetchLand" /\ lastOp'.ok) =>
            \E f \in BagToSet(fetches) :
               /\ f.st = "data"
               /\ fetches' = fetches (-) SetToBag({f})
               /\ posts' = f.data
       /\ lastOp'.op = "postInsert" =>
            posts' = <<Head(events).new>> \o posts
       /\ lastOp'.op = "postDelete" =>
            posts' = SelectSeq(posts, LAMBDA p : p.id # Head(events).old.id)]_vars

\* A snapshot taken before a post was inserted has landed after the post's
\* realtime event: the write that landed last has taken the post out of the
\* container, and nothing is in flight that would bring it back.
C27_Witness ==
    /\ lastOp.op = "fetchLand" /\ lastOp.ok
    /\ fetches = EmptyBag /\ events = <<>>
    /\ \E p \in PostIds : Live(p) /\ p \notin Ids(posts)

----------------------------------------------------------------------------
\* The optimistic comment, with another client deleting the post meanwhile.

\* A student looks at a loaded feed of two posts, the newer one another
\* user's.
InitAppend ==
    /\ InitLoaded
    /\ sPosts = [p \in PostIds |->
                    IF p = "p1" THEN NewRow("u1", <<1, 0>>, "wisdom")
                    ELSE IF p = "p2" THEN NewRow("u2", <<2, 0>>, "wisdom")
                    ELSE NoRow]
    /\ posts = Snapshot
    /\ shown = Snapshot
    /\ rendered = Snapshot

NextAppend ==
    \/ \E text \in Drafts :
            "p2" \in Ids(shown) /\ handleCommentChange("p2", text)
    \/ \E i \in 1..Len(shown) : handleAddComment(shown[i].id)
    \/ \E c \in BagToSet(calls), fails \in BOOLEAN : CommentCallDone(c, fails)
    \/ StoreDeletePost("p2")
    \/ DeliverPostDelete
    \/ Render

SpecAppend == InitAppend /\ [][NextAppend]_vars

\* C29: the optimistic step of handleAddComment puts one synthesized comment
\* behind the comments the target post holds, keeps those and their order
\* and the post's other fields, changes no other post, and leaves the
\* container as it is when the target post is not in it.
C29_OptimisticAppend ==
    [][lastOp'.op = "addComment" =>
        /\ Len(posts') = Len(posts)
        /\ \A i \in 1..Len(posts) :
              IF posts[i].id = lastOp'.id
              THEN /\ \A k \in DOMAIN posts[i] \ {"comments"} :
                          k \in DOMAIN posts'[i] /\ posts'[i][k] = posts[i][k]
                   /\ Len(Comments(posts'[i])) = Len(Comments(posts[i])) + 1
                   /\ SubSeq(Comments(posts'[i]), 1, Len(Comments(posts[i])))
                         = Comments(posts[i])
                   /\ LET c == Comments(posts'[i])[Len(Comments(posts'[i]))]
                      IN /\ c.id = lastOp'.tmp
                         /\ c.user_id = user
                         /\ c.content = trim(newComments[lastOp'.id])
              ELSE posts'[i] = posts[i]]_vars

\* A second comment went behind a first one that is still in the list.
C29_Witness ==
    /\ lastOp.op = "addComment"
    /\ lastOp.id \in Ids(posts)
    /\ Len(Comments(PostOf(posts, lastOp.id))) >= 2
    /\ Comments(PostOf(posts, lastOp.id))[Len(Comments(PostOf(posts, lastOp.id)))].id
          = lastOp.tmp

\* The comment was sent from the card of a post that a realtime delete had
\* already taken out of the container.
TargetGone ==
    lastOp.op = "addComment" /\ lastOp.id \notin Ids(posts)

----------------------------------------------------------------------------
\* The like toggle and the likes of other users.

\* C30: the optimistic step of a like toggle changes nothing but the acting
\* user's membership in the like list the container holds for the post:
\* the other users liking it are the same before and after.
C30_OtherLikesKept ==
    [][(lastOp'.op = "likeToggle" /\ lastOp'.id \in Ids(posts)) =>
        LikeUsers(PostOf(posts', lastOp'.id)) \ {user}
            = LikeUsers(PostOf(posts, lastOp'.id)) \ {user}]_vars

----------------------------------------------------------------------------
\* One like per user.

\* A student looks at a loaded feed that holds one post of another user.
InitLikes ==
    /\ InitLoaded
    /\ sPosts = [p \in PostIds |-> IF p = "p1" THEN SeedRow("u2") ELSE NoRow]
    /\ posts = Snapshot
    /\ shown = Snapshot
    /\ rendered = Snapshot

NextLikes ==
    \/ \E i \in 1..Len(shown) : LikeClick(shown[i])
    \/ \E c \in BagToSet(calls), res \in CallResults : LikeCallDone(c, res)
    \/ StoreLike("p1", "u2")
    \/ DeliverLikes
    \/ Fetching
    \/ Render

SpecLikes == InitLikes /\ [][NextLikes]_vars

OneLikePerUser(p) ==
    \A j, k \in 1..Len(Likes(p)) :
        j # k => Likes(p)[j].user_id # Likes(p)[k].user_id

\* C31: the store holds at most one like per post and user, so every
\* snapshot does; then under like toggles, refetches and realtime events
\* every post of the container (and of the rendered projection the buttons
\* hold) has at most one like per user.
C31_OneLikePerUser ==
    /\ \A j, k \in 1..Len(sLikes) :
          j # k => <<sLikes[j].post_id, sLikes[j].user_id>>
                     # <<sLikes[k].post_id, sLikes[k].user_id>>
    /\ \A i \in 1..Len(posts) : OneLikePerUser(posts[i])
    /\ \A i \in 1..Len(shown) : OneLikePerUser(shown[i])

\* The user liked a post that a refetch had delivered with another user's
\* like: the list holds the two likes.
C31_Witness ==
    /\ lastOp.op = "likeToggle"
    /\ lastOp.id \in Ids(posts)
    /\ Len(Likes(PostOf(posts, lastOp.id))) = 2

----------------------------------------------------------------------------
\* The submitting flag.

\* A remote call that was issued is answered, with a result or an error.
SubmitAnswered ==
    \/ \E c \in BagToSet(calls), res \in CallResults : UploadDone(c, res)
    \/ \E c \in BagToSet(calls), res \in CallResults, n \in NewPosts :
          PostInsertDone(c, res, n.id, n.at)

\* The composer with a wisdom text and an optional image.
NextFlag ==
    \/ \E t \in ContentDrafts : setContent(t)
    \/ \E f \in Files : setPostImageFile(f)
    \/ SubmitAttempt
    \/ SubmitAnswered
    \/ DeliverPostInsert
    \/ Render

SpecFlag == InitSubmit /\ [][NextFlag]_vars /\ WF_vars(SubmitAnswered)

Submissions(b) ==
    BagCardinality([c \in {x \in BagToSet(b) : x.kind \in {"upload", "insertPost"}}
                      |-> b[c]])

\* C32: at most one submission is in flight, and it is in flight exactly
\* while submitting is set; a submit while the flag is set changes nothing;
\* and a flag that is set is reset, however the submission ends.
C32_SubmittingFlag ==
    /\ [](Submissions(calls) = IF submitting THEN 1 ELSE 0)
    /\ [][(lastOp'.op \in SubmitOps /\ submitting) =>
            /\ calls' = calls
            /\ submitting' = submitting
            /\ ComposerFields' = ComposerFields]_vars
    /\ (submitting ~> ~submitting)

\* A second submission went out after the first one had failed.
C32_Witness ==
    /\ lastOp.op = "submit"
    /\ acts = 2
    /\ submitting
    /\ toast = "Failed to create post."

----------------------------------------------------------------------------
\* The link preview and the text it belongs to.  linkPreview is one state
\* of the component: the composer's effect and the edit handlers both set
\* it.

\* A student has an own post in the loaded feed and writes in the composer.
InitCompose ==
    /\ InitLoaded
    /\ sPosts = [p \in PostIds |-> IF p = "p1" THEN SeedRow("u1") ELSE NoRow]
    /\ posts = Snapshot
    /\ shown = Snapshot
    /\ rendered = Snapshot

NextCompose ==
    \/ \E t \in PreviewDrafts : setContent(t)
    \/ \E t \in timers : TimerFire(t)
    \/ \E c \in BagToSet(calls) : LinkPreviewDone(c)
    \/ \E i \in 1..Len(shown) : handleEditClick(shown[i])
    \/ handleCancelEdit

SpecCompose == InitCompose /\ [][NextCompose]_vars

\* No timer is pending and no resolution is under way.
PreviewSettled ==
    /\ timers = {}
    /\ \A c \in BagToSet(calls) : c.kind \notin {"linkPreview", "preview"}

PreviewOf(t) ==
    IF matchUrl(t) # NoUrl THEN fetchRichLinkPreview(matchUrl(t)) ELSE NoPreview

\* C33: when the composer text has stopped changing and every resolution
\* that was started has completed, the stored link preview is the preview
\* of the first link of the text, or null when the text holds no link.
C33_PreviewMatchesText ==
    PreviewSettled => linkPreview = PreviewOf(content)

----------------------------------------------------------------------------
\* A refetch that fails.

\* C34: a refetch that fails writes nothing into the container and reports
\* "Could not fetch posts."; every refetch that lands, with data or with an
\* error, leaves the loading flag false; and once the loading flag is false
\* no step of the mounted component sets it again.
C34_FailedRefetch ==
    /\ [][lastOp'.op = "fetchLand" =>
            /\ loading' = FALSE
            /\ ~lastOp'.ok => /\ posts' = posts
                              /\ toast' = "Could not fetch posts."]_vars
    /\ [][~loading => ~loading']_vars

C34_Witness ==
    /\ lastOp.op = "fetchLand" /\ ~lastOp.ok
    /\ posts # <<>>
    /\ ~loading
    /\ toast = "Could not fetch posts."

====
